---- MODULE Spec2Model ----
(***************************************************************************)
(* ConcurrentHashJoin: a hash join sharded over `slots` HashJoin instances, *)
(* each behind its own mutex.  Blocks are dispatched to the shards by       *)
(* cityHash64(keys) % slots; addJoinedBlock inserts the dispatched blocks   *)
(* with a try_lock retry loop; joinBlock probes every shard and             *)
(* concatenates the per-shard results.                                      *)
(***************************************************************************)
EXTENDS Integers, Sequences, FiniteSets, Bags, TLC

\* ------------------------------------------------------------------ bounds
MaxSlots == 2
MaxRows == 2
MaxKey == 2
MaxVal == 2
NumThreads == 2
MaxCalls == 1
MaxSeqCalls == 2
MaxWebCalls == 4
WebFileSize == 3
WebBufSize == 2

\* ------------------------------------------------------------- the schemas
\* table_join->getClauses()[0]: the key names of the two sides.
key_names_left == <<"a", "b">>
key_names_right == <<"c", "d">>

\* The sample blocks the constructor receives (names and types, no rows).
left_sample_block ==
    << [name |-> "x", type |-> "UInt64", column |-> <<>>],
       [name |-> "a", type |-> "UInt64", column |-> <<>>],
       [name |-> "b", type |-> "UInt64", column |-> <<>>] >>

right_sample_block ==
    << [name |-> "c", type |-> "UInt64", column |-> <<>>],
       [name |-> "d", type |-> "UInt64", column |-> <<>>],
       [name |-> "y", type |-> "UInt64", column |-> <<>>] >>

\* ------------------------------------------------------------------ blocks
\* A Block is a sequence of ColumnWithTypeAndName; a column is a sequence of
\* values, all columns of one block equally long.
BlockRows(block) == IF block = <<>> THEN 0 ELSE Len(block[1].column)

BlockColumns(block) == Len(block)

CloneEmpty(block) ==
    [p \in 1..Len(block) |-> [block[p] EXCEPT !.column = <<>>]]

FindByName(block, name) ==
    block[CHOOSE p \in 1..Len(block) : block[p].name = name]

\* The r-th row of a block, as the tuple of its values in column order.
RowAt(block, r) == [p \in 1..Len(block) |-> block[p].column[r]]

RowsOf(block) == [r \in 1..BlockRows(block) |-> RowAt(block, r)]

\* The block with the columns of `header` whose rows are `rows`.
BlockOfRows(header, rows) ==
    [p \in 1..Len(header) |->
        [header[p] EXCEPT !.column = [r \in 1..Len(rows) |-> rows[r][p]]]]

RECURSIVE SeqsUpTo(_, _)
SeqsUpTo(S, n) ==
    IF n = 0 THEN {<<>>}
    ELSE LET shorter == SeqsUpTo(S, n - 1)
         IN  shorter \cup {Append(s, e) : s \in {q \in shorter : Len(q) = n - 1}, e \in S}

\* ------------------------------------------------------------ the routing
\* cityHash64 over the tuple of key values of one row: one hash of the whole
\* tuple.  The hash is an unsigned integer of fixed width (64 bits in the
\* program, 16 here; the routing only uses it modulo slots).
HashWidth == 2 ^ 16

RECURSIVE CityHash64(_)
CityHash64(values) ==
    IF values = <<>> THEN 40503
    ELSE (CityHash64(SubSeq(values, 1, Len(values) - 1)) * 5
            + values[Len(values)] * 7 + 11) % HashWidth

RECURSIVE JoinNames(_)
JoinNames(names) ==
    IF names = <<>> THEN ""
    ELSE IF Len(names) = 1 THEN names[1]
    ELSE JoinNames(SubSeq(names, 1, Len(names) - 1)) \o "," \o names[Len(names)]

\* A faulty variant: the selector expressions compare with 1..slots, not 0..slots-1.
BuildHashExpressionAction_OffByOne(n, block, based_columns_names) ==
    LET col_buf == JoinNames(based_columns_names)
        expr(i) == [name |-> "cityHash64(" \o col_buf \o ")%" \o ToString(n)
                                \o "=" \o ToString(i + 1),
                    args |-> based_columns_names,
                    modulo |-> n,
                    equals |-> i + 1]
    IN  [hash_expression_actions |-> [k \in 1..n |-> expr(k - 1)],
         hash_columns_names |-> [k \in 1..n |-> expr(k - 1).name]]

\* buildHashExpressionAction: the expression list
\* "cityHash64(k1,k2)%slots=0, ..., cityHash64(k1,k2)%slots=slots-1" and the
\* names of its result columns.
BuildHashExpressionAction(n, block, based_columns_names) ==
    LET col_buf == JoinNames(based_columns_names)
        expr(i) == [name |-> "cityHash64(" \o col_buf \o ")%" \o ToString(n)
                                \o "=" \o ToString(i),
                    args |-> based_columns_names,
                    modulo |-> n,
                    equals |-> i]
    IN  [hash_expression_actions |-> [k \in 1..n |-> expr(k - 1)],
         hash_columns_names |-> [k \in 1..n |-> expr(k - 1).name]]

\* A faulty variant: the left side is hashed by its first key column only.
DispatchDatas_FirstKeyOnly(n) ==
    [s \in 0..1 |->
        IF s = 0 THEN BuildHashExpressionAction(n, left_sample_block,
                                                SubSeq(key_names_left, 1, 1))
        ELSE BuildHashExpressionAction(n, right_sample_block, key_names_right)]

\* The constructor's dispatch_datas: [0] for the left side, [1] for the right.
DispatchDatas(n) ==
    [s \in 0..1 |->
        IF s = 0 THEN BuildHashExpressionAction(n, left_sample_block, key_names_left)
        ELSE BuildHashExpressionAction(n, right_sample_block, key_names_right)]

\* ExpressionActions::execute: appends one UInt8 column per expression, 1 in
\* the rows where cityHash64(args) % modulo = equals.
ExecuteActions(actions, block, rows) ==
    block \o
    [k \in 1..Len(actions) |->
        [name |-> actions[k].name,
         type |-> "UInt8",
         column |->
            [r \in 1..rows |->
                LET key == [j \in 1..Len(actions[k].args) |->
                                FindByName(block, actions[k].args[j]).column[r]]
                IN  IF CityHash64(key) % actions[k].modulo = actions[k].equals
                    THEN 1 ELSE 0]]]

\* FilterDescription::filter: the values of `column` at the rows the filter
\* selects, in order.
RECURSIVE FilterColumn(_, _)
FilterColumn(column, filter) ==
    IF column = <<>> THEN <<>>
    ELSE LET rest == FilterColumn(SubSeq(column, 1, Len(column) - 1),
                                  SubSeq(filter, 1, Len(filter) - 1))
         IN  IF filter[Len(column)] # 0
             THEN Append(rest, column[Len(column)])
             ELSE rest

\* A faulty variant: every sub-block is filtered by the first selector column.
DispatchBlock_FirstFilter(dispatch_data, from_block) ==
    LET rows_before_filtration == BlockRows(from_block)
        header == CloneEmpty(from_block)
        executed == ExecuteActions(dispatch_data.hash_expression_actions,
                                   from_block, rows_before_filtration)
    IN  [k \in 1..Len(dispatch_data.hash_columns_names) |->
            LET full_column ==
                    FindByName(executed, dispatch_data.hash_columns_names[1]).column
            IN  [i \in 1..BlockColumns(header) |->
                    [name |-> executed[i].name,
                     type |-> executed[i].type,
                     column |-> FilterColumn(executed[i].column, full_column)]]]

\* A faulty variant: a sub-block without rows is not emitted.
DispatchBlock_SkipEmpty(dispatch_data, from_block) ==
    LET rows_before_filtration == BlockRows(from_block)
        header == CloneEmpty(from_block)
        executed == ExecuteActions(dispatch_data.hash_expression_actions,
                                   from_block, rows_before_filtration)
        all == [k \in 1..Len(dispatch_data.hash_columns_names) |->
                  LET full_column ==
                        FindByName(executed, dispatch_data.hash_columns_names[k]).column
                  IN  [i \in 1..BlockColumns(header) |->
                          [name |-> executed[i].name,
                           type |-> executed[i].type,
                           column |-> FilterColumn(executed[i].column, full_column)]]]
    IN  SelectSeq(all, LAMBDA b : BlockRows(b) > 0)

\* A faulty variant: the header is taken after the selectors were computed.
DispatchBlock_HeaderAfterExecute(dispatch_data, from_block) ==
    LET rows_before_filtration == BlockRows(from_block)
        executed == ExecuteActions(dispatch_data.hash_expression_actions,
                                   from_block, rows_before_filtration)
        header == CloneEmpty(executed)
    IN  [k \in 1..Len(dispatch_data.hash_columns_names) |->
            LET full_column ==
                    FindByName(executed, dispatch_data.hash_columns_names[k]).column
            IN  [i \in 1..BlockColumns(header) |->
                    [name |-> executed[i].name,
                     type |-> executed[i].type,
                     column |-> FilterColumn(executed[i].column, full_column)]]]

\* dispatchBlock: one sub-block per selector column, holding the header's
\* columns filtered by that selector.  (The result is indexed 1..slots; the
\* sub-block of shard i is element i + 1.)
DispatchBlock(dispatch_data, from_block) ==
    LET rows_before_filtration == BlockRows(from_block)
        header == CloneEmpty(from_block)
        executed == ExecuteActions(dispatch_data.hash_expression_actions,
                                   from_block, rows_before_filtration)
    IN  [k \in 1..Len(dispatch_data.hash_columns_names) |->
            LET full_column ==
                    FindByName(executed, dispatch_data.hash_columns_names[k]).column
            IN  [i \in 1..BlockColumns(header) |->
                    [name |-> executed[i].name,
                     type |-> executed[i].type,
                     column |-> FilterColumn(executed[i].column, full_column)]]]

\* Line 247: dispatchBlock leaves the selector columns in from_block.
FromBlockAfterDispatch(dispatch_data, from_block) ==
    ExecuteActions(dispatch_data.hash_expression_actions, from_block,
                   BlockRows(from_block))

\* A faulty variant: the caller's block itself is dispatched.
BlockAfterDispatch_NoClone(block, cloned_block) == cloned_block

\* Lines 63 and 99: the block is copied and the copy dispatched, so the
\* caller's block is as before.
BlockAfterDispatch(block, cloned_block) == block

\* ------------------------------------------------ the local join engine
\* HashJoin, one per shard: `data` is the sequence of right-side rows it holds.
ColumnPos(sample, name) == CHOOSE p \in 1..Len(sample) : sample[p].name = name

KeyOfRow(sample, names, row) ==
    [j \in 1..Len(names) |-> row[ColumnPos(sample, names[j])]]

\* HashJoin::addJoinedBlock: the rows of the block are appended.
EngineAddJoinedBlock(data, block) == data \o RowsOf(block)

\* HashJoin::getTotalRowCount.
EngineTotalRowCount(data) == Len(data)

\* The sum of the first n elements of s, and of all its elements.
RECURSIVE SumUpTo(_, _)
SumUpTo(s, n) == IF n = 0 THEN 0 ELSE SumUpTo(s, n - 1) + s[n]

SumSeq(s) == SumUpTo(s, Len(s))

\* HashJoin::getTotalByteCount: a value v occupies v bytes.
EngineTotalByteCount(data) == SumSeq([r \in 1..Len(data) |-> SumSeq(data[r])])

\* HashJoin::alwaysReturnsEmptySet: an inner join over no build rows.
EngineAlwaysReturnsEmptySet(join_kind, data) == join_kind = "Inner" /\ data = <<>>

DefaultRow(sample) == [p \in 1..Len(sample) |-> 0]

\* The output rows of one probe row: one per matching build row, in the
\* engine's order; a left join keeps an unmatched probe row with defaults.
JoinedRowsOf(join_kind, left_row, data) ==
    LET key == KeyOfRow(left_sample_block, key_names_left, left_row)
        hits == SelectSeq(data,
                    LAMBDA b : KeyOfRow(right_sample_block, key_names_right, b) = key)
    IN  IF hits = <<>> /\ join_kind = "Left"
        THEN << left_row \o DefaultRow(right_sample_block) >>
        ELSE [h \in 1..Len(hits) |-> left_row \o hits[h]]

RECURSIVE JoinedRows(_, _, _)
JoinedRows(join_kind, left_rows, data) ==
    IF left_rows = <<>> THEN <<>>
    ELSE JoinedRows(join_kind, SubSeq(left_rows, 1, Len(left_rows) - 1), data)
            \o JoinedRowsOf(join_kind, left_rows[Len(left_rows)], data)

\* HashJoin::joinBlock: the block becomes the joined block, the left columns
\* followed by the right columns.
EngineJoinBlock(join_kind, block, data) ==
    BlockOfRows(CloneEmpty(block) \o right_sample_block,
                JoinedRows(join_kind, RowsOf(block), data))

\* ------------------------------------------------------------- the state
VARIABLES
    construction,    \* "none" before the constructor, then "ok" or its error
    slots,           \* the number of shards
    join_kind,       \* table_join->kind()
    strictness,      \* table_join->strictness()
    dispatch_datas,  \* [0]: left-side routing, [1]: right-side routing
    key_types,       \* the key columns' types in the constructor's sample blocks
    hash_joins,      \* shard -> [data: the engine's rows, mutex: 0 or the holder]
    frames,          \* thread -> the locals of the call the thread is in
    submitted,       \* history: the bag of rows handed to addJoinedBlock so far
    ncalls,          \* history: thread -> the number of calls it has started
    rt,              \* the inputs and results of the routing checks
    totals,          \* the totals block
    totals_mutex,    \* 0 or the thread holding totals_mutex
    totals_writes,   \* history: the blocks assigned to totals, in order
    web              \* a ReadIndirectBufferFromWebServer and the server it reads

\* What the constructor fixes.
shape == <<construction, slots, join_kind, strictness, dispatch_datas, key_types>>

totals_vars == <<totals, totals_mutex, totals_writes>>

\* The join.
join_vars == <<shape, hash_joins, frames, submitted, ncalls, rt, totals_vars>>

vars == <<join_vars, web>>

Threads == 1..NumThreads

Shards == 0..(slots - 1)

\* table_join->sizeLimits().
SizeLimits == [max_rows |-> 2, max_bytes |-> 9]

\* SizeLimits::check: the error when a limit is exceeded.
SizeLimitsCheck(limits, rows, bytes) ==
    IF rows > limits.max_rows \/ bytes > limits.max_bytes
    THEN "SET_SIZE_LIMIT_EXCEEDED"
    ELSE "true"

\* The input blocks: up to MaxRows rows over the sample block's columns.
RightRows(vals) == {<<c, d, y>> : c \in 1..MaxKey, d \in 1..MaxKey, y \in vals}

LeftRows(vals) == {<<x, a, b>> : x \in vals, a \in 1..MaxKey, b \in 1..MaxKey}

RightBlocks(vals) ==
    {BlockOfRows(right_sample_block, rows) : rows \in SeqsUpTo(RightRows(vals), MaxRows)}

LeftBlocks(vals) ==
    {BlockOfRows(left_sample_block, rows) : rows \in SeqsUpTo(LeftRows(vals), MaxRows)}

IdleFrame ==
    [op |-> "none", pc |-> "idle", block |-> <<>>, check_limits |-> FALSE,
     dispatched_blocks |-> <<>>, pending_blocks |-> <<>>, iter |-> 1,
     snap |-> <<>>, i |-> 0, res_rows |-> 0, res_bytes |-> 0, counted |-> 0,
     ret |-> "none",
     \* history of the call
     arg |-> <<>>, inserted |-> <<>>, passed |-> {}, overlapped |-> FALSE,
     reports |-> <<>>, dispatched0 |-> <<>>, in_contract |-> TRUE,
     whole_totals |-> {},
     rows_lo |-> 0, rows_hi |-> 0, rows_seen |-> {}, rows_exact |-> TRUE,
     bytes_lo |-> 0, bytes_hi |-> 0, bytes_seen |-> {}, bytes_exact |-> TRUE,
     rows_at_return |-> 0, bytes_at_return |-> 0, reference |-> <<>>]

NoRoute == [side |-> "none", block |-> <<>>, executed |-> <<>>, dispatched |-> <<>>]

\* ASTTableJoin::Kind and ASTTableJoin::Strictness.
Kinds == {"Inner", "Left", "Right", "Full", "Cross", "Comma"}

Strictnesses == {"Unspecified", "RightAny", "Any", "All", "Asof", "Semi", "Anti"}

\* A faulty variant: the shard count is not checked.
SlotsInvalid_Unchecked(slots_) == FALSE

\* Line 38: !slots_.
SlotsInvalid(slots_) == slots_ = 0

\* The constructor (lines 33-57): BAD_ARGUMENTS for no slots, thrown before
\* anything is created; else `slots_` engines, each with its own unlocked
\* mutex, and the two dispatch datas.
Constructor(slots_) ==
    IF SlotsInvalid(slots_)
    THEN [construction |-> "BAD_ARGUMENTS", slots |-> slots_,
          hash_joins |-> <<>>, dispatch_datas |-> <<>>]
    ELSE [construction |-> "ok", slots |-> slots_,
          hash_joins |-> [i \in 0..(slots_ - 1) |-> [data |-> <<>>, mutex |-> 0]],
          dispatch_datas |-> DispatchDatas(slots_)]

\* ------------------------------------- ReadIndirectBufferFromWebServer
\* The buffer after its constructor: no impl, offset 0, nothing in the
\* working buffer.  `server` is the position in the file of the next byte
\* the HTTP response will carry, once a request is open.  History: `range`,
\* the start of the byte range requested; `opened`, the requests opened;
\* `attempts`, the calls of nextImpl; `delivered`, the bytes successful reads
\* have put into the working buffer; `seeked`, the offset of the last seek
\* that succeeded; `op`, `result` and `before`, the last call, its outcome
\* and the buffer it was made on.
NoWebCall == [impl |-> FALSE, offset |-> 0, attempts |-> 0, offset_ |-> 0, whence |-> "none"]

NewWebBuffer ==
    [impl |-> FALSE, offset |-> 0, working_buffer_size |-> 0, pos |-> 0,
     server |-> 0, range |-> 0, opened |-> 0, attempts |-> 0, delivered |-> 0,
     seeked |-> 0, op |-> "none", result |-> "none", before |-> NoWebCall,
     ncalls |-> 0]

\* off_t: the offsets seek may be given, negative ones included.
OffMax == WebFileSize + 1

SeekOffsets == (0 - 1)..OffMax

Whences == {"SEEK_SET", "SEEK_CUR", "SEEK_END"}

\* ReadBuffer::available: the bytes of the working buffer not yet consumed.
Available(b) == b.working_buffer_size - b.pos

\* A faulty variant: a negative offset is accepted.
SeekError_NegativeAllowed(impl, offset_, whence) ==
    IF impl THEN "CANNOT_SEEK_THROUGH_FILE"
    ELSE IF whence # "SEEK_SET" THEN "CANNOT_SEEK_THROUGH_FILE"
    ELSE "none"

\* Lines 88-95: the three checks of seek, in their order.
SeekError(impl, offset_, whence) ==
    IF impl THEN "CANNOT_SEEK_THROUGH_FILE"
    ELSE IF whence # "SEEK_SET" THEN "CANNOT_SEEK_THROUGH_FILE"
    ELSE IF offset_ < 0 THEN "SEEK_POSITION_OUT_OF_BOUND"
    ELSE "none"

\* What a call finds, kept for the claims.
WebCall(b, offset_, whence) ==
    [impl |-> b.impl, offset |-> b.offset, attempts |-> b.attempts,
     offset_ |-> offset_, whence |-> whence]

\* seek (lines 86-100): an error leaves the buffer as it is; otherwise the
\* offset is stored and returned.
WebSeek(offset_, whence) ==
    /\ web.ncalls < MaxWebCalls
    /\ LET error == SeekError(web.impl, offset_, whence)
           called == [web EXCEPT !.op = "seek", !.ncalls = web.ncalls + 1,
                                 !.before = WebCall(web, offset_, whence)]
       IN  web' = IF error # "none"
                  THEN [called EXCEPT !.result = error]
                  ELSE [called EXCEPT !.offset = offset_, !.seeked = offset_,
                                      !.result = "ok"]
    /\ UNCHANGED join_vars

\* Line 39: the Range header, "bytes=offset-".
RangeStart(offset) == offset

\* A faulty variant: the offset becomes the size of the last buffer.
OffsetAfterRead_Assign(offset, size) == size

\* Line 79: offset += working_buffer.size().
OffsetAfterRead(offset, size) == offset + size

\* The sizes of the buffer impl->next() may deliver: at least one byte, at
\* most buf_size, none past the end of the file.
Deliverable(server) ==
    {n \in 1..WebBufSize : server + n <= WebFileSize}

\* Lines 64-68: an impl is asked for its next buffer only when the present
\* one is read to its end (the assert on hasPendingData).
NextImplAllowed(b) == b.impl => Available(b) = 0

\* Lines 64-73: with an impl the position is handed to it, else initialize
\* opens the request at the stored offset.
WebImplFor(b) ==
    IF b.impl THEN b
    ELSE [b EXCEPT !.impl = TRUE, !.range = RangeStart(b.offset),
                   !.server = RangeStart(b.offset), !.opened = b.opened + 1]

\* nextImpl called by ReadBuffer::next (lines 62-83), impl->next() returning
\* true with n bytes: they become the working buffer, position at its
\* start, and the offset moves on by n.
WebNextRead ==
    /\ web.ncalls < MaxWebCalls
    /\ NextImplAllowed(web)
    /\ LET b == WebImplFor(web)
       IN  \E n \in Deliverable(b.server) :
              web' = [b EXCEPT !.op = "next", !.result = "true",
                               !.before = WebCall(web, 0, "none"),
                               !.ncalls = web.ncalls + 1,
                               !.attempts = web.attempts + 1,
                               !.working_buffer_size = n,
                               !.pos = 0,
                               !.server = b.server + n,
                               !.delivered = b.delivered + n,
                               !.offset = OffsetAfterRead(b.offset, n)]
    /\ UNCHANGED join_vars

\* nextImpl, impl->next() returning false at the end of the file: the
\* offset stays, and ReadBuffer::next leaves an empty working buffer.
WebNextEof ==
    /\ web.ncalls < MaxWebCalls
    /\ NextImplAllowed(web)
    /\ LET b == WebImplFor(web)
       IN  /\ Deliverable(b.server) = {}
           /\ web' = [b EXCEPT !.op = "next", !.result = "false",
                                !.before = WebCall(web, 0, "none"),
                                !.ncalls = web.ncalls + 1,
                                !.attempts = web.attempts + 1,
                                !.working_buffer_size = 0,
                                !.pos = 0]
    /\ UNCHANGED join_vars

\* nextImpl, an exception out of initialize (line 72: the URI or the HTTP
\* request fails): impl is not assigned.
WebNextInitializeThrows ==
    /\ web.ncalls < MaxWebCalls
    /\ NextImplAllowed(web)
    /\ ~web.impl
    /\ web' = [web EXCEPT !.op = "next", !.result = "exception",
                          !.before = WebCall(web, 0, "none"),
                          !.ncalls = web.ncalls + 1,
                          !.attempts = web.attempts + 1]
    /\ UNCHANGED join_vars

\* nextImpl, an exception out of impl->next() (line 75): the impl stays.
WebNextThrows ==
    /\ web.ncalls < MaxWebCalls
    /\ NextImplAllowed(web)
    /\ web' = [WebImplFor(web) EXCEPT
                  !.op = "next", !.result = "exception",
                  !.before = WebCall(web, 0, "none"),
                  !.ncalls = web.ncalls + 1,
                  !.attempts = web.attempts + 1]
    /\ UNCHANGED join_vars

\* The caller consumes k bytes of the working buffer.
WebConsume(k) ==
    /\ k \in 1..Available(web)
    /\ web' = [web EXCEPT !.pos = web.pos + k]
    /\ UNCHANGED join_vars

\* getPosition (lines 103-106).
GetPosition(b) == b.offset - Available(b)

NextWeb ==
    \/ \E offset_ \in SeekOffsets, whence \in Whences : WebSeek(offset_, whence)
    \/ WebNextRead
    \/ WebNextEof
    \/ WebNextInitializeThrows
    \/ WebNextThrows
    \/ \E k \in 1..WebBufSize : WebConsume(k)

\* The types of the columns `names` of a block.
TypesOf(block, names) == [j \in 1..Len(names) |-> FindByName(block, names[j]).type]

\* The key types of the two sample blocks.
SampleKeyTypes ==
    [left |-> TypesOf(left_sample_block, key_names_left),
     right |-> TypesOf(right_sample_block, key_names_right)]

\* The state after the constructor has returned for n >= 1 slots.
InitShared(n, kinds) ==
    /\ web = NewWebBuffer
    /\ key_types = SampleKeyTypes
    /\ construction = Constructor(n).construction
    /\ slots = Constructor(n).slots
    /\ join_kind \in kinds
    /\ strictness = "All"
    /\ dispatch_datas = Constructor(n).dispatch_datas
    /\ hash_joins = Constructor(n).hash_joins
    /\ totals = <<>>
    /\ totals_mutex = 0
    /\ totals_writes = <<>>
    /\ frames = [t \in Threads |-> IdleFrame]
    /\ submitted = EmptyBag
    /\ ncalls = [t \in Threads |-> 0]
    /\ rt = [left |-> NoRoute, right |-> NoRoute]

Init == \E n \in 1..MaxSlots : InitShared(n, {"Inner"})

\* A thread that is in no call may start one.  Threads are interchangeable,
\* so they are numbered by the order of their first calls.
CanCall(t, max_calls) ==
    /\ construction = "ok"
    /\ frames[t].pc = "idle"
    /\ ncalls[t] < max_calls
    /\ IF t = 1 THEN TRUE ELSE ncalls[t - 1] > 0

InBuild(f) == f.op = "addJoinedBlock" /\ f.pc # "idle"

InProbe(f) == f.op = "joinBlock" /\ f.pc # "idle"

RECURSIVE BagOfSeq(_)
BagOfSeq(s) ==
    IF s = <<>> THEN EmptyBag
    ELSE BagOfSeq(SubSeq(s, 1, Len(s) - 1)) (+) SetToBag({s[Len(s)]})

\* ----------------------------------------------------- the counts
\* getTotalRowCount and getTotalByteCount over the engines as they are at one
\* moment.
TotalRowCount(joins) ==
    SumSeq([k \in 1..Cardinality(DOMAIN joins) |->
                EngineTotalRowCount(joins[k - 1].data)])

TotalByteCount(joins) ==
    SumSeq([k \in 1..Cardinality(DOMAIN joins) |->
                EngineTotalByteCount(joins[k - 1].data)])

GetTotalRowCount == TotalRowCount(hash_joins)

GetTotalByteCount == TotalByteCount(hash_joins)

\* History of a count: it starts at the moment's true total.
StartCount(f, pc) ==
    IF pc = "count_rows"
    THEN [f EXCEPT !.pc = pc, !.i = 0, !.res_rows = 0,
                   !.rows_lo = GetTotalRowCount, !.rows_seen = {GetTotalRowCount}]
    ELSE [f EXCEPT !.pc = pc, !.i = 0, !.res_bytes = 0,
                   !.bytes_lo = GetTotalByteCount, !.bytes_seen = {GetTotalByteCount}]

\* History of a count: the true totals change under it.
SeeTotals(f, joins) ==
    IF f.pc = "count_rows"
    THEN [f EXCEPT !.rows_seen = f.rows_seen \cup {TotalRowCount(joins)}]
    ELSE IF f.pc = "count_bytes"
    THEN [f EXCEPT !.bytes_seen = f.bytes_seen \cup {TotalByteCount(joins)}]
    ELSE f

\* History of a count: it ends, having met its result among the true totals
\* or not.
EndCount(f) ==
    IF f.pc = "count_rows"
    THEN [f EXCEPT !.rows_hi = GetTotalRowCount,
                   !.rows_exact = f.res_rows \in f.rows_seen,
                   !.rows_seen = {}]
    ELSE [f EXCEPT !.bytes_hi = GetTotalByteCount,
                   !.bytes_exact = f.res_bytes \in f.bytes_seen,
                   !.bytes_seen = {}]

\* A faulty variant: the sum is overwritten by each engine's count.
AddCount_Overwrite(res, count) == count

\* Lines 164 and 174: res += the engine's count.
AddCount(res, count) == res + count

\* ---------------------------------------------------------- addJoinedBlock
\* A faulty variant: try_lock never succeeds.
MutexTryLock_Never(mutex) == FALSE

\* A faulty variant: the lock is taken whether or not it is held.
MutexTryLock_Always(mutex) == TRUE

\* std::mutex::try_lock succeeds exactly when the mutex is not held (no
\* spurious failure).
MutexTryLock(mutex) == mutex = 0

\* A faulty variant: the mutex stays held.
MutexUnlock_Keep(mutex) == mutex

\* std::mutex::unlock.
MutexUnlock(mutex) == 0

\* A faulty variant: erase removes the element before the iterator's.
ListErase_Previous(list, pos) ==
    IF pos = 1 THEN SubSeq(list, 2, Len(list))
    ELSE SubSeq(list, 1, pos - 2) \o SubSeq(list, pos, Len(list))

\* std::list::erase(iter): the list without the element at iter; the returned
\* iterator is at the same position.
ListErase(list, pos) == SubSeq(list, 1, pos - 1) \o SubSeq(list, pos + 1, Len(list))

\* A faulty variant: a shard found busy is dropped from the worklist.
PendingAfterBusy_Drop(list, pos) == ListErase(list, pos)

\* A shard found busy stays in the worklist (iter++).
PendingAfterBusy(list, pos) == list

\* Lines 61-68: dispatch the block by the right-side routing and fill the
\* worklist with 0..slots-1.
AddJoinedBlockCall(t, block, check_limits, max_calls) ==
    /\ CanCall(t, max_calls)
    /\ LET dispatched == DispatchBlock(dispatch_datas[1], block)
           others == \E u \in Threads \ {t} : InBuild(frames[u])
       IN  frames' =
             [u \in Threads |->
                IF u = t
                THEN [IdleFrame EXCEPT
                        !.op = "addJoinedBlock", !.pc = "scan",
                        !.block = BlockAfterDispatch(
                                     block,
                                     FromBlockAfterDispatch(dispatch_datas[1], block)),
                        !.arg = block,
                        !.dispatched0 = dispatched,
                        !.check_limits = check_limits,
                        !.dispatched_blocks = dispatched,
                        !.pending_blocks = [k \in 1..Len(dispatched) |-> k - 1],
                        !.iter = 1,
                        !.overlapped = others]
                ELSE IF InBuild(frames[u])
                     THEN [frames[u] EXCEPT !.overlapped = TRUE]
                     ELSE IF InProbe(frames[u])
                          THEN [frames[u] EXCEPT !.in_contract = FALSE]
                          ELSE frames[u]]
    /\ submitted' = submitted (+) BagOfSeq(RowsOf(block))
    /\ ncalls' = [ncalls EXCEPT ![t] = ncalls[t] + 1]
    /\ UNCHANGED <<web, shape, totals_vars, hash_joins, rt>>

\* Line 76, try_lock succeeded: the thread is inside the engine's
\* addJoinedBlock (line 78), which starts from the engine's rows.
AddJoinedBlockLock(t) ==
    LET f == frames[t]
        i == f.pending_blocks[f.iter]
    IN  /\ f.pc = "scan"
        /\ MutexTryLock(hash_joins[i].mutex)
        /\ hash_joins' = [hash_joins EXCEPT ![i].mutex = t]
        /\ frames' = [frames EXCEPT ![t].pc = "inserting",
                                     ![t].snap = hash_joins[i].data]
        /\ UNCHANGED <<web, shape, totals_vars, submitted, ncalls, rt>>

\* A faulty variant: the limits are checked whatever check_limits says.
LimitsChecked_Always(check_limits) == TRUE

\* Line 90: the limits are checked only with check_limits.
LimitsChecked(check_limits) == check_limits

\* After the while loop (lines 90-92): without check_limits the call returns
\* true; with it, the two totals are computed first, in either order.
LeaveLoop(f, first) ==
    IF LimitsChecked(f.check_limits)
    THEN StartCount([f EXCEPT !.counted = 0], first)
    ELSE [f EXCEPT !.pc = "idle", !.ret = "true"]

\* The for loop's and the while loop's conditions (lines 69-71): at the end
\* of the list the next scan starts, and an empty list ends the loop.
Continue(f, pending, pos, first) ==
    IF pending = <<>>
    THEN LeaveLoop([f EXCEPT !.pending_blocks = pending, !.iter = 1], first)
    ELSE [f EXCEPT !.pending_blocks = pending,
                   !.iter = IF pos > Len(pending) THEN 1 ELSE pos,
                   !.pc = "scan"]

\* Lines 83-86, try_lock failed: the iterator moves on.
AddJoinedBlockSkip(t) ==
    LET f == frames[t]
        i == f.pending_blocks[f.iter]
        pending == PendingAfterBusy(f.pending_blocks, f.iter)
        next == IF pending = f.pending_blocks THEN f.iter + 1 ELSE f.iter
    IN  /\ f.pc = "scan"
        /\ ~MutexTryLock(hash_joins[i].mutex)
        /\ \E first \in {"count_rows", "count_bytes"} :
              frames' = [frames EXCEPT
                           ![t] = Continue([f EXCEPT !.passed = f.passed \cup {i}],
                                           pending, next, first)]
        /\ UNCHANGED <<web, shape, totals_vars, hash_joins, submitted, ncalls, rt>>

\* A faulty variant: every sub-block goes to the engine of shard 0.
HashJoinIndex_First(i) == 0

\* Line 74: hash_join is hash_joins[i], the engine of the index at iter.
HashJoinIndex(i) == i

\* Line 78 returns: the engine holds its rows followed by the sub-block's.
AddJoinedBlockInsert(t) ==
    LET f == frames[t]
        i == f.pending_blocks[f.iter]
        after == [hash_joins EXCEPT
                    ![HashJoinIndex(i)].data =
                        EngineAddJoinedBlock(f.snap, f.dispatched_blocks[i + 1])]
    IN  /\ f.pc = "inserting"
        /\ hash_joins' = after
        /\ frames' =
              [u \in Threads |->
                 IF u = t
                 THEN [f EXCEPT !.pc = "unlock", !.inserted = Append(f.inserted, i)]
                 ELSE IF InProbe(frames[u])
                      THEN [frames[u] EXCEPT !.overlapped = TRUE]
                      ELSE SeeTotals(frames[u], after)]
        /\ UNCHANGED <<web, shape, totals_vars, submitted, ncalls, rt>>

\* Line 78 throws: the exception leaves addJoinedBlock at once.  Line 80 is
\* not reached and nothing else unlocks the mutex, so it stays held; the
\* engine's rows are taken to be as before the insertion.
AddJoinedBlockThrows(t) ==
    LET f == frames[t]
    IN  /\ f.pc = "inserting"
        /\ frames' = [frames EXCEPT ![t].pc = "idle", ![t].ret = "exception"]
        /\ UNCHANGED <<web, shape, totals_vars, hash_joins, submitted, ncalls, rt>>

\* Lines 80-81: unlock, and erase the index from the worklist.
AddJoinedBlockUnlock(t) ==
    LET f == frames[t]
        i == f.pending_blocks[f.iter]
    IN  /\ f.pc = "unlock"
        /\ hash_joins' = [hash_joins EXCEPT ![i].mutex = MutexUnlock(hash_joins[i].mutex)]
        /\ \E first \in {"count_rows", "count_bytes"} :
              frames' = [frames EXCEPT
                           ![t] = Continue(f, ListErase(f.pending_blocks, f.iter),
                                           f.iter, first)]
        /\ UNCHANGED <<web, shape, totals_vars, submitted, ncalls, rt>>

\* --------------------------------------------------- the loops of the counts
\* The end of a total's loop: the other total is next, or, with both
\* computed, line 91's check decides the call's result.
AfterCount(f) ==
    IF f.counted = 0
    THEN StartCount([EndCount(f) EXCEPT !.counted = 1],
                    IF f.pc = "count_rows" THEN "count_bytes" ELSE "count_rows")
    ELSE [EndCount(f) EXCEPT !.counted = 2, !.pc = "idle",
                   !.ret = SizeLimitsCheck(SizeLimits, f.res_rows, f.res_bytes),
                   !.rows_at_return = GetTotalRowCount,
                   !.bytes_at_return = GetTotalByteCount]

\* Lines 162-165: one iteration of getTotalRowCount's loop.
CountRowsStep(t) ==
    LET f == frames[t]
        g == [f EXCEPT !.res_rows = AddCount(f.res_rows,
                                             EngineTotalRowCount(hash_joins[f.i].data)),
                       !.i = f.i + 1]
    IN  /\ f.pc = "count_rows"
        /\ frames' = [frames EXCEPT ![t] = IF g.i = slots THEN AfterCount(g) ELSE g]
        /\ UNCHANGED <<web, shape, totals_vars, hash_joins, submitted, ncalls, rt>>

\* Lines 172-175: one iteration of getTotalByteCount's loop.
CountBytesStep(t) ==
    LET f == frames[t]
        g == [f EXCEPT !.res_bytes = AddCount(f.res_bytes,
                                              EngineTotalByteCount(hash_joins[f.i].data)),
                       !.i = f.i + 1]
    IN  /\ f.pc = "count_bytes"
        /\ frames' = [frames EXCEPT ![t] = IF g.i = slots THEN AfterCount(g) ELSE g]
        /\ UNCHANGED <<web, shape, totals_vars, hash_joins, submitted, ncalls, rt>>

\* ---------------------------------------------------------------- joinBlock
\* Lines 97-100: dispatch the block by the left-side routing.  (History: the
\* call keeps the caller's contract when no addJoinedBlock is in progress at
\* its start and none starts before it ends.)
JoinBlockCall(t, block, max_calls) ==
    /\ CanCall(t, max_calls)
    /\ frames' = [frames EXCEPT
                     ![t] = [IdleFrame EXCEPT
                               !.op = "joinBlock", !.pc = "probe",
                               !.in_contract =
                                   ~\E u \in Threads : InBuild(frames[u]),
                               !.block = BlockAfterDispatch(
                                            block,
                                            FromBlockAfterDispatch(dispatch_datas[0], block)),
                               !.arg = block,
                               !.dispatched0 = DispatchBlock(dispatch_datas[0], block),
                               !.dispatched_blocks =
                                   DispatchBlock(dispatch_datas[0], block),
                               !.i = 0]]
    /\ ncalls' = [ncalls EXCEPT ![t] = ncalls[t] + 1]
    /\ UNCHANGED <<web, shape, totals_vars, hash_joins, submitted, rt>>

\* The not_processed an engine's joinBlock may leave: no ExtraBlock, an
\* ExtraBlock whose block is empty, or one holding a block.
ExtraBlocks(block) ==
    {[ptr |-> FALSE, block |-> <<>>], [ptr |-> TRUE, block |-> <<>>],
     [ptr |-> TRUE, block |-> block]}

\* ExtraBlock::empty: !block.
ExtraBlockEmpty(extra) == extra.block = <<>>

\* A faulty variant: what the engine left unprocessed is ignored.
NotProcessedLeft_Ignored(none_extra_block) == FALSE

\* Line 107: none_extra_block && !none_extra_block->empty().
NotProcessedLeft(none_extra_block) ==
    none_extra_block.ptr /\ ~ExtraBlockEmpty(none_extra_block)

\* A faulty variant: the engine is probed only while its mutex is free.
JoinBlockReaches_WhenFree(mutex) == mutex = 0

\* Lines 104-106: joinBlock reaches the engine without looking at the mutex.
JoinBlockReaches(mutex) == TRUE

\* Lines 101-109, one iteration: shard i's engine joins sub-block i in place;
\* no mutex is taken.  Rows left unprocessed end the call with LOGICAL_ERROR,
\* the caller's block as it was.  (History: `passed` collects the shards
\* probed while another thread held their mutex.)
JoinBlockProbe(t) ==
    LET f == frames[t]
        joined == EngineJoinBlock(join_kind, f.dispatched_blocks[f.i + 1],
                                  hash_joins[f.i].data)
    IN  /\ f.pc = "probe"
        /\ JoinBlockReaches(hash_joins[f.i].mutex)
        /\ \E none_extra_block \in ExtraBlocks(f.dispatched_blocks[f.i + 1]) :
              LET g == [f EXCEPT
                          !.dispatched_blocks[f.i + 1] = joined,
                          !.passed = IF hash_joins[f.i].mutex # 0
                                     THEN f.passed \cup {f.i} ELSE f.passed,
                          !.reports = Append(f.reports,
                                             none_extra_block.ptr
                                                /\ none_extra_block.block # <<>>)]
              IN  frames' =
                    [frames EXCEPT
                       ![t] = IF NotProcessedLeft(none_extra_block)
                              THEN [g EXCEPT !.pc = "idle", !.ret = "LOGICAL_ERROR"]
                              ELSE [g EXCEPT
                                      !.i = f.i + 1,
                                      !.pc = IF f.i + 1 = slots THEN "concat"
                                             ELSE "probe"]]
        /\ UNCHANGED <<web, shape, totals_vars, hash_joins, submitted, ncalls, rt>>

\* A faulty variant: the sub-blocks are appended last shard first.
RECURSIVE ConcatColumn_Reversed(_, _)
ConcatColumn_Reversed(blocks, pos) ==
    IF blocks = <<>> THEN <<>>
    ELSE LET last == blocks[Len(blocks)]
         IN  (IF pos <= BlockColumns(last) THEN last[pos].column ELSE <<>>)
                \o ConcatColumn_Reversed(SubSeq(blocks, 1, Len(blocks) - 1), pos)

\* Lines 115-129: column pos of the result is the concatenation of column pos
\* of every sub-block, in the order of the sub-blocks.
RECURSIVE ConcatColumn(_, _)
ConcatColumn(blocks, pos) ==
    IF blocks = <<>> THEN <<>>
    ELSE LET last == blocks[Len(blocks)]
         IN  ConcatColumn(SubSeq(blocks, 1, Len(blocks) - 1), pos)
                \o (IF pos <= BlockColumns(last) THEN last[pos].column ELSE <<>>)

\* A faulty variant: the names and types are those of the left columns only.
ConcatBlocks_LeftColumns(dispatched_blocks) ==
    LET names_and_types ==
            SubSeq(CloneEmpty(dispatched_blocks[1]), 1, Len(left_sample_block))
    IN  [p \in 1..Len(names_and_types) |->
            [name |-> names_and_types[p].name,
             type |-> names_and_types[p].type,
             column |-> ConcatColumn(dispatched_blocks, p)]]

\* Lines 111-137: the result block, with the names and types of sub-block 0.
ConcatBlocks(dispatched_blocks) ==
    LET names_and_types == CloneEmpty(dispatched_blocks[1])
    IN  [p \in 1..Len(names_and_types) |->
            [name |-> names_and_types[p].name,
             type |-> names_and_types[p].type,
             column |-> ConcatColumn(dispatched_blocks, p)]]

RECURSIVE AllData(_, _)
AllData(joins, n) ==
    IF n = 0 THEN <<>> ELSE AllData(joins, n - 1) \o joins[n - 1].data

\* Line 137: the caller's block becomes the result.
JoinBlockConcat(t) ==
    LET f == frames[t]
    IN  /\ f.pc = "concat"
        /\ frames' = [frames EXCEPT
                         ![t].block = ConcatBlocks(f.dispatched_blocks),
                         ![t].pc = "idle",
                         ![t].ret = "true",
                         ![t].reference =
                             RowsOf(EngineJoinBlock(join_kind, f.block,
                                                    AllData(hash_joins, slots)))]
        /\ UNCHANGED <<web, shape, totals_vars, hash_joins, submitted, ncalls, rt>>

\* ------------------------------------------------------- introspection
\* A faulty variant: a shard that may return rows is passed over.
ReturnsFalseAt_Never(always_empty) == FALSE

\* Line 183: if (!hash_join->data->alwaysReturnsEmptySet()) return false.
ReturnsFalseAt(always_empty) == ~always_empty

AlwaysReturnsEmptySetCall(t, max_calls) ==
    /\ CanCall(t, max_calls)
    /\ frames' = [frames EXCEPT
                     ![t] = [IdleFrame EXCEPT
                               !.op = "alwaysReturnsEmptySet", !.pc = "always_empty",
                               !.i = 0]]
    /\ ncalls' = [ncalls EXCEPT ![t] = ncalls[t] + 1]
    /\ UNCHANGED <<web, shape, totals_vars, hash_joins, submitted, rt>>

\* Lines 181-186, one iteration: the first engine that may return rows ends
\* the call with false; past the last engine the call returns true.
AlwaysReturnsEmptySetStep(t) ==
    LET f == frames[t]
        always_empty == EngineAlwaysReturnsEmptySet(join_kind, hash_joins[f.i].data)
        g == [f EXCEPT !.reports = Append(f.reports, always_empty)]
    IN  /\ f.pc = "always_empty"
        /\ frames' =
              [frames EXCEPT
                 ![t] = IF ReturnsFalseAt(always_empty)
                        THEN [g EXCEPT !.pc = "idle", !.ret = "false"]
                        ELSE IF f.i + 1 = slots
                             THEN [g EXCEPT !.i = f.i + 1, !.pc = "idle", !.ret = "true"]
                             ELSE [g EXCEPT !.i = f.i + 1]]
        /\ UNCHANGED <<web, shape, totals_vars, hash_joins, submitted, ncalls, rt>>

\* isRightOrFull.
IsRightOrFull(kind) == kind \in {"Right", "Full"}

\* A faulty variant: the semi strictness is not tested.
NotApplicable_SemiForgotten(kind, strict) ==
    strict = "Asof" \/ ~IsRightOrFull(kind)

\* A faulty variant: every join gets the empty pointer.
NotApplicable_Always(kind, strict) == TRUE

\* Lines 192-194.
NotApplicable(kind, strict) ==
    strict = "Asof" \/ strict = "Semi" \/ ~IsRightOrFull(kind)

\* getNonJoinedBlocks (lines 189-199): the empty pointer, or LOGICAL_ERROR.
GetNonJoinedBlocks(t, max_calls) ==
    /\ CanCall(t, max_calls)
    /\ frames' = [frames EXCEPT
                     ![t] = [IdleFrame EXCEPT
                               !.op = "getNonJoinedBlocks",
                               !.ret = IF NotApplicable(join_kind, strictness)
                                       THEN "nullptr" ELSE "LOGICAL_ERROR"]]
    /\ ncalls' = [ncalls EXCEPT ![t] = ncalls[t] + 1]
    /\ UNCHANGED <<web, shape, totals_vars, hash_joins, submitted, rt>>

\* ------------------------------------------------------ checkTypesOfKeys
\* HashJoin::checkTypesOfKeys: the block's left key columns must have the
\* types of the engine's right key columns.
EngineCheckTypesOfKeys(right_types, block) ==
    IF TypesOf(block, key_names_left) = right_types THEN "ok" ELSE "TYPE_MISMATCH"

\* A faulty variant: the engine's report is dropped.
KeyTypesReport_Ok(report) == "ok"

\* Line 142: what the engine of hash_joins[0] reports is what the call
\* reports, an exception included.
KeyTypesReport(report) == report

\* checkTypesOfKeys (lines 140-143).
CheckTypesOfKeys(t, block, max_calls) ==
    /\ CanCall(t, max_calls)
    /\ 0 \in DOMAIN hash_joins
    /\ frames' = [frames EXCEPT
                     ![t] = [IdleFrame EXCEPT
                               !.op = "checkTypesOfKeys", !.block = block,
                               !.arg = block,
                               !.ret = KeyTypesReport(
                                          EngineCheckTypesOfKeys(key_types.right,
                                                                 block))]]
    /\ ncalls' = [ncalls EXCEPT ![t] = ncalls[t] + 1]
    /\ UNCHANGED <<web, shape, totals_vars, hash_joins, submitted, rt>>

\* ------------------------------------------------------------- the totals
\* Block::operator bool: the block has columns.
BlockIsSet(block) == block # <<>>

\* A faulty variant: every block is stored.
TotalsStored_Always(block) == TRUE

\* Line 147: if (block).
TotalsStored(block) == BlockIsSet(block)

\* setTotals (lines 145-152): a block without columns is not stored.
SetTotalsCall(t, block, max_calls) ==
    /\ CanCall(t, max_calls)
    /\ frames' = [frames EXCEPT
                     ![t] = [IdleFrame EXCEPT
                               !.op = "setTotals", !.block = block, !.arg = block,
                               !.pc = IF TotalsStored(block) THEN "totals_lock"
                                      ELSE "idle"]]
    /\ ncalls' = [ncalls EXCEPT ![t] = ncalls[t] + 1]
    /\ UNCHANGED <<web, shape, totals_vars, hash_joins, submitted, rt>>

\* A faulty variant: setTotals locks the mutex of shard 0.
SetTotalsLock_ShardMutex(t) ==
    /\ frames[t].pc = "totals_lock"
    /\ hash_joins[0].mutex = 0
    /\ hash_joins' = [hash_joins EXCEPT ![0].mutex = t]
    /\ frames' = [frames EXCEPT ![t].pc = "totals_assign"]
    /\ UNCHANGED <<web, shape, totals_vars, submitted, ncalls, rt>>

\* Line 149: std::lock_guard waits until totals_mutex is free.
SetTotalsLock(t) ==
    /\ frames[t].pc = "totals_lock"
    /\ totals_mutex = 0
    /\ totals_mutex' = t
    /\ frames' = [frames EXCEPT ![t].pc = "totals_assign"]
    /\ UNCHANGED <<web, shape, totals, totals_writes, hash_joins, submitted, ncalls, rt>>

\* Line 150: totals = block, complete when this step is taken.
SetTotalsAssign(t) ==
    /\ frames[t].pc = "totals_assign"
    /\ totals' = frames[t].block
    /\ totals_writes' = Append(totals_writes, frames[t].block)
    /\ frames' = [frames EXCEPT ![t].pc = "totals_unlock"]
    /\ UNCHANGED <<web, shape, totals_mutex, hash_joins, submitted, ncalls, rt>>

\* Line 151: the lock_guard's destructor.
SetTotalsUnlock(t) ==
    /\ frames[t].pc = "totals_unlock"
    /\ totals_mutex' = 0
    /\ frames' = [frames EXCEPT ![t].pc = "idle"]
    /\ UNCHANGED <<web, shape, totals, totals_writes, hash_joins, submitted, ncalls, rt>>

\* What a read of totals may find while `new` is being assigned over `old`:
\* the first k columns of the new block, the others as they were.
TornValues(old, new) ==
    {SubSeq(new, 1, k) \o SubSeq(old, k + 1, Len(old)) : k \in 0..Len(new)}

\* The threads in the middle of line 150's assignment.
Assigning == {u \in Threads : frames[u].pc = "totals_assign"}

\* getTotals (lines 154-157) takes no lock and returns a reference to totals:
\* a read that races with line 150 finds any mix of the two blocks.
ReadTotals ==
    IF Assigning = {} THEN {totals}
    ELSE UNION {TornValues(totals, frames[u].block) : u \in Assigning}

\* The k-th value of totals: the constructor's, then the blocks assigned.
TotalsValue(k) == IF k = 0 THEN <<>> ELSE totals_writes[k]

\* The blocks stored by the last setTotals that has returned and by the
\* setTotals calls after it, those in the middle of the assignment included.
WholeTotals ==
    LET returned == Len(totals_writes)
                      - Cardinality({u \in Threads : frames[u].pc = "totals_unlock"})
    IN  {TotalsValue(k) : k \in returned..Len(totals_writes)}
            \cup {frames[u].block : u \in Assigning}

GetTotals(t, max_calls) ==
    /\ CanCall(t, max_calls)
    /\ \E observed \in ReadTotals :
          frames' = [frames EXCEPT
                       ![t] = [IdleFrame EXCEPT
                                 !.op = "getTotals", !.block = observed,
                                 !.whole_totals = WholeTotals]]
    /\ ncalls' = [ncalls EXCEPT ![t] = ncalls[t] + 1]
    /\ UNCHANGED <<web, shape, totals_vars, hash_joins, submitted, rt>>

\* The constructor as a step, for slots_ shards.
Construct(slots_) ==
    /\ construction = "none"
    /\ construction' = Constructor(slots_).construction
    /\ slots' = Constructor(slots_).slots
    /\ dispatch_datas' = Constructor(slots_).dispatch_datas
    /\ hash_joins' = Constructor(slots_).hash_joins
    /\ UNCHANGED <<web, join_kind, strictness, key_types, totals_vars, frames,
                   submitted, ncalls, rt>>

\* ------------------------------------------------------ the specification
\* The calls of `threads`, each thread making up to max_calls calls with
\* blocks from build_inputs and probe_inputs, interleaved step by step.
NextOf(threads, build_inputs, probe_inputs, max_calls) ==
    \E t \in threads :
        \/ \E block \in build_inputs, check_limits \in BOOLEAN :
              AddJoinedBlockCall(t, block, check_limits, max_calls)
        \/ AddJoinedBlockLock(t)
        \/ AddJoinedBlockSkip(t)
        \/ AddJoinedBlockInsert(t)
        \/ AddJoinedBlockUnlock(t)
        \/ CountRowsStep(t)
        \/ CountBytesStep(t)
        \/ \E block \in probe_inputs : JoinBlockCall(t, block, max_calls)
        \/ JoinBlockProbe(t)
        \/ JoinBlockConcat(t)

\* Concurrent calls: the key column c varies, d and y are 1.
SmallRightBlocks ==
    {BlockOfRows(right_sample_block, rows) :
        rows \in SeqsUpTo({<<c, 1, 1>> : c \in 1..MaxKey}, MaxRows)}

SmallLeftBlocks ==
    {BlockOfRows(left_sample_block, rows) :
        rows \in SeqsUpTo({<<1, a, 1>> : a \in 1..MaxKey}, MaxRows)}

Next == NextOf(Threads, SmallRightBlocks, SmallLeftBlocks, MaxCalls)

Spec == Init /\ [][Next]_vars

\* Concurrent addJoinedBlock calls alone, with blocks of at most one row: the
\* steps of the retry loop do not depend on the rows.
OneRowRightBlocks ==
    {BlockOfRows(right_sample_block, rows) :
        rows \in SeqsUpTo({<<c, 1, 1>> : c \in 1..MaxKey}, 1)}

\* The steps of thread t inside addJoinedBlock.
BuildStep(t) ==
    \/ AddJoinedBlockLock(t)
    \/ AddJoinedBlockSkip(t)
    \/ AddJoinedBlockInsert(t)
    \/ AddJoinedBlockUnlock(t)
    \/ CountRowsStep(t)
    \/ CountBytesStep(t)

NextBuild ==
    \E t \in Threads :
        \/ \E block \in OneRowRightBlocks, check_limits \in BOOLEAN :
              AddJoinedBlockCall(t, block, check_limits, MaxCalls)
        \/ BuildStep(t)

\* A running thread is scheduled again and again: the steps of each thread
\* are weakly fair.
SpecFair == Init /\ [][NextBuild]_vars /\ \A t \in Threads : WF_vars(BuildStep(t))

\* Concurrent addJoinedBlock calls whose engines may fail an insertion.
NextThrow ==
    \E t \in Threads :
        \/ \E block \in OneRowRightBlocks, check_limits \in BOOLEAN :
              AddJoinedBlockCall(t, block, check_limits, MaxCalls)
        \/ BuildStep(t)
        \/ AddJoinedBlockThrows(t)

SpecThrow == Init /\ [][NextThrow]_vars

\* Calls one after the other, by one thread, over both key columns and
\* both join kinds.
InitSeq == \E n \in 1..MaxSlots : InitShared(n, {"Inner", "Left"})

\* With one thread no mutex is ever found held, so try_lock never fails.
NextSeq ==
    \/ \E block \in RightBlocks({1}), check_limits \in BOOLEAN :
          AddJoinedBlockCall(1, block, check_limits, MaxSeqCalls)
    \/ AddJoinedBlockLock(1)
    \/ AddJoinedBlockInsert(1)
    \/ AddJoinedBlockUnlock(1)
    \/ CountRowsStep(1)
    \/ CountBytesStep(1)
    \/ \E block \in LeftBlocks({1}) : JoinBlockCall(1, block, MaxSeqCalls)
    \/ JoinBlockProbe(1)
    \/ JoinBlockConcat(1)

SpecSeq == InitSeq /\ [][NextSeq]_vars

\* The life of one join of any kind and strictness, used by one thread: the
\* constructor, then addJoinedBlock, alwaysReturnsEmptySet and
\* getNonJoinedBlocks calls.
InitLife ==
    /\ web = NewWebBuffer
    /\ key_types = SampleKeyTypes
    /\ construction = "none"
    /\ slots = 0
    /\ join_kind \in Kinds
    /\ strictness \in Strictnesses
    /\ dispatch_datas = <<>>
    /\ hash_joins = <<>>
    /\ totals = <<>>
    /\ totals_mutex = 0
    /\ totals_writes = <<>>
    /\ frames = [t \in Threads |-> IdleFrame]
    /\ submitted = EmptyBag
    /\ ncalls = [t \in Threads |-> 0]
    /\ rt = [left |-> NoRoute, right |-> NoRoute]

NextLife ==
    \/ \E slots_ \in 0..MaxSlots : Construct(slots_)
    \/ \E block \in SmallRightBlocks, check_limits \in BOOLEAN :
          AddJoinedBlockCall(1, block, check_limits, MaxSeqCalls)
    \/ AddJoinedBlockLock(1)
    \/ AddJoinedBlockInsert(1)
    \/ AddJoinedBlockUnlock(1)
    \/ CountRowsStep(1)
    \/ CountBytesStep(1)
    \/ AlwaysReturnsEmptySetCall(1, MaxSeqCalls)
    \/ AlwaysReturnsEmptySetStep(1)
    \/ GetNonJoinedBlocks(1, MaxSeqCalls)

SpecLife == InitLife /\ [][NextLife]_vars

\* The key types a column may have.
KeyTypes == {"UInt64", "String"}

KeyTypeSeqs == {<<ta, tb>> : ta \in KeyTypes, tb \in KeyTypes}

\* The blocks passed to checkTypesOfKeys: the left columns, without rows,
\* the key columns of any types.
SchemaBlocks ==
    {[p \in 1..Len(left_sample_block) |->
        [left_sample_block[p] EXCEPT
            !.type = IF left_sample_block[p].name = key_names_left[1] THEN ty[1]
                     ELSE IF left_sample_block[p].name = key_names_left[2] THEN ty[2]
                     ELSE left_sample_block[p].type]] : ty \in KeyTypeSeqs}

\* A join constructed over sample blocks whose key types may differ between
\* the sides, then used by one thread: addJoinedBlock and checkTypesOfKeys.
InitKeys ==
    /\ web = NewWebBuffer
    /\ key_types \in [left : KeyTypeSeqs, right : KeyTypeSeqs]
    /\ construction = "none"
    /\ slots = 0
    /\ join_kind = "Inner"
    /\ strictness = "All"
    /\ dispatch_datas = <<>>
    /\ hash_joins = <<>>
    /\ totals = <<>>
    /\ totals_mutex = 0
    /\ totals_writes = <<>>
    /\ frames = [t \in Threads |-> IdleFrame]
    /\ submitted = EmptyBag
    /\ ncalls = [t \in Threads |-> 0]
    /\ rt = [left |-> NoRoute, right |-> NoRoute]

NextKeys ==
    \/ \E slots_ \in 0..MaxSlots : Construct(slots_)
    \/ \E block \in OneRowRightBlocks :
          AddJoinedBlockCall(1, block, FALSE, MaxSeqCalls)
    \/ AddJoinedBlockLock(1)
    \/ AddJoinedBlockInsert(1)
    \/ AddJoinedBlockUnlock(1)
    \/ \E block \in SchemaBlocks : CheckTypesOfKeys(1, block, MaxSeqCalls)

SpecKeys == InitKeys /\ [][NextKeys]_vars

\* The totals blocks: none, or two columns of one row.
TotalsBlocks ==
    {<<>>} \cup
    {<< [name |-> "x", type |-> "UInt64", column |-> <<v>>],
        [name |-> "y", type |-> "UInt64", column |-> <<v>>] >> : v \in 1..MaxVal}

\* Concurrent setTotals and getTotals calls.
NextTotals ==
    \E t \in Threads :
        \/ \E block \in TotalsBlocks : SetTotalsCall(t, block, MaxSeqCalls)
        \/ SetTotalsLock(t)
        \/ SetTotalsAssign(t)
        \/ SetTotalsUnlock(t)
        \/ GetTotals(t, MaxSeqCalls)

SpecTotals == Init /\ [][NextTotals]_vars

\* Concurrent calls of all four: addJoinedBlock, joinBlock, setTotals and
\* getTotals.
NextMixed ==
    \/ Next
    \/ \E t \in Threads :
          \/ \E block \in TotalsBlocks : SetTotalsCall(t, block, MaxCalls)
          \/ SetTotalsLock(t)
          \/ SetTotalsAssign(t)
          \/ SetTotalsUnlock(t)
          \/ GetTotals(t, MaxCalls)

SpecMixed == Init /\ [][NextMixed]_vars

\* One buffer used by one caller, next to a join nobody calls.
InitWeb == InitShared(1, {"Inner"})

SpecWeb == InitWeb /\ [][NextWeb]_vars

\* ---------------------------------------- the routing, as a pure function
\* The routing of one side applied to one block: the selector columns the
\* expression computes, and the sub-blocks dispatchBlock makes of them.
Route(side, data, block) ==
    [side |-> side,
     block |-> block,
     executed |-> ExecuteActions(data.hash_expression_actions, block, BlockRows(block)),
     dispatched |-> DispatchBlock(data, block)]

RouteLeft(block) ==
    /\ rt.left.side = "none"
    /\ rt' = [rt EXCEPT !.left = Route("left", dispatch_datas[0], block)]
    /\ UNCHANGED <<web, shape, totals_vars, hash_joins, frames, submitted, ncalls>>

RouteRight(block) ==
    /\ rt.right.side = "none"
    /\ rt' = [rt EXCEPT !.right = Route("right", dispatch_datas[1], block)]
    /\ UNCHANGED <<web, shape, totals_vars, hash_joins, frames, submitted, ncalls>>

NextRoute ==
    \/ \E block \in LeftBlocks(1..MaxVal) : RouteLeft(block)
    \/ \E block \in RightBlocks(1..MaxVal) : RouteRight(block)

SpecRoute == Init /\ [][NextRoute]_vars

\* ------------------------------------------------------------ the claims
\* The shard index the routing assigns to a key tuple.
RoutingIndex(key, n) == CityHash64(key) % n

LeftKey(row) == KeyOfRow(left_sample_block, key_names_left, row)

RightKey(row) == KeyOfRow(right_sample_block, key_names_right, row)

\* The shards whose selector column is set in row r of a routed block.
SelectedShards(route, names, r) ==
    {i \in Shards : FindByName(route.executed, names[i + 1]).column[r] # 0}

LeftShards(r) == SelectedShards(rt.left, dispatch_datas[0].hash_columns_names, r)

RightShards(r) == SelectedShards(rt.right, dispatch_datas[1].hash_columns_names, r)

\* C1: the shard of a row is a function of its key tuple and of slots alone: a
\* left row and a right row with equal keys are routed to the same single
\* shard, RoutingIndex of the key, whatever their other columns and wherever
\* in their blocks they stand.
C1_RoutingConsistency ==
    LET lrows == RowsOf(rt.left.block)
        rrows == RowsOf(rt.right.block)
    IN  /\ \A r \in 1..Len(lrows) :
              LeftShards(r) = {RoutingIndex(LeftKey(lrows[r]), slots)}
        /\ \A q \in 1..Len(rrows) :
              RightShards(q) = {RoutingIndex(RightKey(rrows[q]), slots)}
        /\ \A r \in 1..Len(lrows), q \in 1..Len(rrows) :
              LeftKey(lrows[r]) = RightKey(rrows[q]) => LeftShards(r) = RightShards(q)

\* A left row and a right row with the same key, at different positions of
\* their blocks and with different non-key values, over two shards.
C1_Witness ==
    LET lrows == RowsOf(rt.left.block)
        rrows == RowsOf(rt.right.block)
    IN  /\ slots = 2
        /\ \E r \in 1..Len(lrows), q \in 1..Len(rrows) :
              /\ LeftKey(lrows[r]) = RightKey(rrows[q])
              /\ r # q
              /\ lrows[r][1] # rrows[q][3]
              /\ LeftShards(r) = RightShards(q)
        /\ \E r \in 1..Len(lrows), q \in 1..Len(rrows) :
              LeftShards(r) # RightShards(q)

RECURSIVE IsSubSeq(_, _)
IsSubSeq(s, w) ==
    IF s = <<>> THEN TRUE
    ELSE IF w = <<>> THEN FALSE
    ELSE IF s[Len(s)] = w[Len(w)]
         THEN IsSubSeq(SubSeq(s, 1, Len(s) - 1), SubSeq(w, 1, Len(w) - 1))
         ELSE IsSubSeq(s, SubSeq(w, 1, Len(w) - 1))

RECURSIVE BagOfBlocks(_)
BagOfBlocks(blocks) ==
    IF blocks = <<>> THEN EmptyBag
    ELSE BagOfBlocks(SubSeq(blocks, 1, Len(blocks) - 1))
            (+) BagOfSeq(RowsOf(blocks[Len(blocks)]))

\* The sub-blocks of a routed block partition its rows, in order.
IsPartition(route, shards_of(_)) ==
    /\ Len(route.dispatched) = slots
    /\ \A r \in 1..BlockRows(route.block) :
          Cardinality(shards_of(r)) = 1 /\ shards_of(r) \subseteq Shards
    /\ BagOfBlocks(route.dispatched) = BagOfSeq(RowsOf(route.block))
    /\ \A k \in 1..Len(route.dispatched) :
          /\ IsSubSeq(RowsOf(route.dispatched[k]), RowsOf(route.block))
          /\ RowsOf(route.dispatched[k]) =
                SelectSeq(RowsOf(route.block),
                          LAMBDA row : RoutingIndex(
                              IF route.side = "left" THEN LeftKey(row) ELSE RightKey(row),
                              slots) = k - 1)

\* C3: dispatch puts every row of the block into exactly one of the slots
\* sub-blocks, none twice, none left out, none outside 0..slots-1, and the
\* rows of a sub-block stand in the order they had in the block.
C3_PartitionCompleteness ==
    /\ rt.left.side = "left" => IsPartition(rt.left, LeftShards)
    /\ rt.right.side = "right" => IsPartition(rt.right, RightShards)

\* A block of MaxRows rows dispatched over two shards, both sub-blocks
\* non-empty; and on the other side a block whose rows all go to one shard.
C3_Witness ==
    /\ slots = 2
    /\ BlockRows(rt.right.block) = MaxRows
    /\ \A k \in 1..2 : BlockRows(rt.right.dispatched[k]) > 0
    /\ BlockRows(rt.left.block) = MaxRows
    /\ \E k \in 1..2 : BlockRows(rt.left.dispatched[k]) = MaxRows

\* The shard a thread in addJoinedBlock is at.
CurrentShard(f) == f.pending_blocks[f.iter]

SeqToSet(q) == {q[k] : k \in 1..Len(q)}

\* C2: every row held by shard i's engine has a key with routing index i, and
\* a row about to be probed against shard i has a key with routing index i
\* as well, so that no other shard holds a build row with that key.
C2_RowsInTheirShard ==
    /\ \A i \in Shards : \A b \in SeqToSet(hash_joins[i].data) :
          RoutingIndex(RightKey(b), slots) = i
    /\ \A t \in Threads :
          frames[t].pc = "probe" =>
            \A row \in SeqToSet(RowsOf(frames[t].dispatched_blocks[frames[t].i + 1])) :
              /\ RoutingIndex(LeftKey(row), slots) = frames[t].i
              /\ \A j \in Shards \ {frames[t].i} :
                    \A b \in SeqToSet(hash_joins[j].data) : RightKey(b) # LeftKey(row)

\* Both of two shards hold rows, and a thread is about to probe a row against
\* the second shard, which holds a row with the row's key.
C2_Witness ==
    /\ slots = 2
    /\ \A i \in Shards : hash_joins[i].data # <<>>
    /\ \E t \in Threads :
          /\ frames[t].pc = "probe"
          /\ frames[t].i = 1
          /\ \E row \in SeqToSet(RowsOf(frames[t].dispatched_blocks[2])) :
                \E b \in SeqToSet(hash_joins[1].data) : RightKey(b) = LeftKey(row)

\* C4: the result of a joinBlock that returned a result and that no insertion
\* overlapped holds, as a bag of rows, what one engine holding all the build
\* rows returns for the same block (the join over a single shard).
C4_SameAsSingleShard ==
    \A t \in Threads :
        LET f == frames[t]
        IN  (f.op = "joinBlock" /\ f.pc = "idle" /\ f.ret = "true" /\ ~f.overlapped) =>
              /\ BagOfSeq(RowsOf(f.block)) = BagOfSeq(f.reference)
              /\ \A row \in SeqToSet(RowsOf(f.arg)) :
                    \A b \in SeqToSet(AllData(hash_joins, slots)) :
                        LeftKey(row) = RightKey(b) =>
                            (row \o b) \in SeqToSet(RowsOf(f.block))
              /\ join_kind = "Inner" =>
                    \A out \in SeqToSet(RowsOf(f.block)) :
                        \E b \in SeqToSet(AllData(hash_joins, slots)) :
                            RightKey(b) = LeftKey(out)

\* An inner join over two shards that both hold rows has returned: one probe
\* row is matched and in the result, another has no build row and is absent.
C4_Witness ==
    /\ slots = 2
    /\ join_kind = "Inner"
    /\ \A i \in Shards : hash_joins[i].data # <<>>
    /\ \E t \in Threads :
          LET f == frames[t]
              keys == {RightKey(b) : b \in SeqToSet(AllData(hash_joins, slots))}
          IN  /\ f.op = "joinBlock" /\ f.pc = "idle" /\ f.ret = "true" /\ ~f.overlapped
              /\ \E row \in SeqToSet(RowsOf(f.arg)) : LeftKey(row) \in keys
              /\ \E row \in SeqToSet(RowsOf(f.arg)) : LeftKey(row) \notin keys
              /\ BlockRows(f.block) > 0

Quiescent == \A t \in Threads : frames[t].pc = "idle"

\* C5: with no addJoinedBlock in progress, the total row count is the
\* number of rows of all blocks passed to addJoinedBlock, and the engines
\* hold exactly those rows, each as often as it was passed.
C5_NoRowLostOrDuplicated ==
    Quiescent =>
        /\ GetTotalRowCount = BagCardinality(submitted)
        /\ BagOfSeq(AllData(hash_joins, slots)) = submitted

\* Two addJoinedBlock calls that overlapped have both returned, having
\* inserted more than MaxRows rows over two shards.
C5_Witness ==
    /\ Quiescent
    /\ slots = 2
    /\ \A t \in Threads : frames[t].op = "addJoinedBlock" /\ frames[t].overlapped
    /\ GetTotalRowCount > MaxRows
    /\ \A i \in Shards : hash_joins[i].data # <<>>

\* The threads inside shard i's engine, or past it and about to unlock.
Holders(i) ==
    {t \in Threads : frames[t].pc \in {"inserting", "unlock"} /\ CurrentShard(frames[t]) = i}

\* C6: at most one thread is inside a shard's engine, and that thread holds
\* the shard's mutex.
C6_MutualExclusion ==
    \A i \in Shards :
        /\ Cardinality(Holders(i)) <= 1
        /\ \A t \in Holders(i) : hash_joins[i].mutex = t
        /\ hash_joins[i].mutex # 0 => hash_joins[i].mutex \in Holders(i)

\* One thread is inside shard 0's engine while the other thread is at shard 0
\* in its scan and finds it held.
C6_Witness ==
    \E t \in Threads, u \in Threads :
        /\ t # u
        /\ frames[t].pc = "inserting" /\ CurrentShard(frames[t]) = 0
        /\ frames[u].pc = "scan" /\ CurrentShard(frames[u]) = 0
        /\ hash_joins[0].mutex = t

\* C7: in an addJoinedBlock call the indexes no longer in the worklist are
\* exactly those inserted (the index being unlocked is still listed), no
\* index is inserted twice, and a call that has left the loop has inserted
\* every index 0..slots-1 once.
C7_EachSubBlockOnce ==
    \A t \in Threads :
        LET f == frames[t]
            pending == SeqToSet(f.pending_blocks)
            inserted == SeqToSet(f.inserted)
        IN  f.op = "addJoinedBlock" =>
              /\ Cardinality(inserted) = Len(f.inserted)
              /\ pending \cup inserted = Shards
              /\ pending \cap inserted =
                    (IF f.pc = "unlock" THEN {CurrentShard(f)} ELSE {})
              /\ f.pc \in {"idle", "count_rows", "count_bytes"} =>
                    pending = {} /\ inserted = Shards

\* A call has returned that found shard 0 held, inserted into shard 1 first
\* and into shard 0 on a later scan.
C7_Witness ==
    \E t \in Threads :
        /\ frames[t].op = "addJoinedBlock"
        /\ frames[t].pc = "idle"
        /\ frames[t].inserted = <<1, 0>>
        /\ 0 \in frames[t].passed

\* C8: with every running thread scheduled again and again, every
\* addJoinedBlock call returns.
C8_BuildReturns ==
    \A t \in Threads : InBuild(frames[t]) ~> (frames[t].pc = "idle")

\* A thread is left with one shard in its worklist and finds it held by
\* another thread: it can only retry.
C8_Witness ==
    \E t \in Threads, u \in Threads :
        /\ t # u
        /\ frames[t].pc = "scan"
        /\ Len(frames[t].pending_blocks) = 1
        /\ 0 \in frames[t].passed
        /\ hash_joins[CurrentShard(frames[t])].mutex = u

\* C9: a thread at a shard in its scan always has a step to take: it takes
\* the mutex when the mutex is free, whatever other shards of its worklist
\* are held, and moves on when the mutex is held.  So while it inserts into
\* one shard, it holds the mutex of none of the shards it found held, and
\* these wait in the worklist.
C9_NeverWaitsOnBusyShard ==
    \A t \in Threads :
        LET f == frames[t]
        IN  /\ f.pc = "scan" =>
                  IF hash_joins[CurrentShard(f)].mutex = 0
                  THEN ENABLED AddJoinedBlockLock(t)
                  ELSE ENABLED AddJoinedBlockSkip(t)
            /\ f.pc = "inserting" =>
                  \A i \in f.passed \ (SeqToSet(f.inserted) \cup {CurrentShard(f)}) :
                      /\ i \in SeqToSet(f.pending_blocks)
                      /\ hash_joins[i].mutex # t

\* A thread inserts into shard 1 while shard 0, which it found held, is
\* still in its worklist and still held by the other thread.
C9_Witness ==
    \E t \in Threads, u \in Threads :
        /\ t # u
        /\ frames[t].pc = "inserting"
        /\ CurrentShard(frames[t]) = 1
        /\ 0 \in frames[t].passed
        /\ 0 \in SeqToSet(frames[t].pending_blocks)
        /\ hash_joins[0].mutex = u
        /\ hash_joins[1].mutex = t

\* C10: an addJoinedBlock call that no other addJoinedBlock overlapped, with
\* check_limits, ends with SET_SIZE_LIMIT_EXCEEDED exactly when the total row
\* count or the total byte count of all shards, this call's rows included,
\* is over its limit; without check_limits it returns true.
C10_SizeLimit ==
    \A t \in Threads :
        LET f == frames[t]
        IN  (f.op = "addJoinedBlock" /\ f.pc = "idle" /\ ~f.overlapped) =>
              IF f.check_limits
              THEN /\ f.ret \in {"true", "SET_SIZE_LIMIT_EXCEEDED"}
                   /\ f.ret = "SET_SIZE_LIMIT_EXCEEDED" <=>
                         \/ f.rows_at_return > SizeLimits.max_rows
                         \/ f.bytes_at_return > SizeLimits.max_bytes
                   /\ f.rows_at_return = BagCardinality(submitted)
              ELSE f.ret = "true"

\* The second of two calls failed on the row limit alone.
C10_Witness ==
    \E t \in Threads :
        LET f == frames[t]
        IN  /\ f.op = "addJoinedBlock" /\ f.pc = "idle" /\ f.check_limits
            /\ ncalls[t] = 2
            /\ f.ret = "SET_SIZE_LIMIT_EXCEEDED"
            /\ GetTotalRowCount > SizeLimits.max_rows
            /\ GetTotalByteCount <= SizeLimits.max_bytes

\* The joinBlock calls that have ended, with a result or with an error.
ProbeEnded(f) == f.op = "joinBlock" /\ f.pc = "idle"

\* C11: a joinBlock call ends with LOGICAL_ERROR exactly when a shard's engine
\* left unprocessed rows, at the first shard that did, and it returns a
\* result exactly when each of the slots engines was probed and left none.
C11_NotProcessedIsError ==
    \A t \in Threads :
        LET f == frames[t]
            n == Len(f.reports)
        IN  /\ InProbe(f) => \A k \in 1..n : ~f.reports[k]
            /\ ProbeEnded(f) =>
                  /\ f.ret \in {"true", "LOGICAL_ERROR"}
                  /\ f.ret = "LOGICAL_ERROR" <=> \E k \in 1..n : f.reports[k]
                  /\ f.ret = "LOGICAL_ERROR" =>
                        f.reports[n] /\ \A k \in 1..(n - 1) : ~f.reports[k]
                  /\ f.ret = "true" <=> (n = slots /\ \A k \in 1..n : ~f.reports[k])

\* Over two shards, the engine of shard 0 left nothing and the engine of
\* shard 1 left rows: the call ended with LOGICAL_ERROR.
C11_Witness ==
    \E t \in Threads :
        /\ slots = 2
        /\ ProbeEnded(frames[t])
        /\ frames[t].reports = <<FALSE, TRUE>>
        /\ frames[t].ret = "LOGICAL_ERROR"

RECURSIVE ConcatRows(_)
ConcatRows(blocks) ==
    IF blocks = <<>> THEN <<>>
    ELSE ConcatRows(SubSeq(blocks, 1, Len(blocks) - 1)) \o RowsOf(blocks[Len(blocks)])

\* C12: the rows of joinBlock's result are the rows of shard 0's output, then
\* those of shard 1's, ..., then those of shard slots-1's, each shard's rows
\* in the order of its output, and the result has as many rows as the
\* outputs together.
C12_ConcatInShardOrder ==
    \A t \in Threads :
        LET f == frames[t]
        IN  (ProbeEnded(f) /\ f.ret = "true") =>
              /\ RowsOf(f.block) = ConcatRows(f.dispatched_blocks)
              /\ BlockRows(f.block) =
                    SumSeq([k \in 1..slots |-> BlockRows(f.dispatched_blocks[k])])
              /\ \A p \in 1..BlockColumns(f.block) :
                    Len(f.block[p].column) = BlockRows(f.block)

\* The outputs of two shards are both non-empty, and the result's order is
\* not the order of the rows in the caller's block: the first probe row went
\* to shard 1, the second to shard 0.
C12_Witness ==
    \E t \in Threads :
        LET f == frames[t]
        IN  /\ slots = 2
            /\ ProbeEnded(f) /\ f.ret = "true"
            /\ \A k \in 1..2 : BlockRows(f.dispatched_blocks[k]) > 0
            /\ BlockRows(f.arg) = 2
            /\ RoutingIndex(LeftKey(RowAt(f.arg, 1)), slots) = 1
            /\ RoutingIndex(LeftKey(RowAt(f.arg, 2)), slots) = 0
            /\ FindByName(f.block, "a").column # FindByName(f.arg, "a").column

\* C13: alwaysReturnsEmptySet returns true exactly when each of the slots
\* engines reports that it always returns the empty set, and false when it
\* comes to the first engine that does not.
C13_AlwaysEmpty ==
    \A t \in Threads :
        LET f == frames[t]
            n == Len(f.reports)
            all_empty == \A i \in Shards :
                            EngineAlwaysReturnsEmptySet(join_kind, hash_joins[i].data)
        IN  (f.op = "alwaysReturnsEmptySet" /\ f.pc = "idle") =>
              /\ f.ret \in {"true", "false"}
              /\ f.ret = "true" <=> all_empty
              /\ f.ret = "true" <=> (n = slots /\ \A k \in 1..n : f.reports[k])
              /\ f.ret = "false" =>
                    ~f.reports[n] /\ \A k \in 1..(n - 1) : f.reports[k]

\* An inner join over two shards: shard 0 holds no rows, shard 1 holds some,
\* and the call returned false at shard 1.
C13_Witness ==
    \E t \in Threads :
        /\ slots = 2
        /\ join_kind = "Inner"
        /\ hash_joins[0].data = <<>>
        /\ hash_joins[1].data # <<>>
        /\ frames[t].op = "alwaysReturnsEmptySet" /\ frames[t].pc = "idle"
        /\ frames[t].reports = <<TRUE, FALSE>>
        /\ frames[t].ret = "false"

NonJoinedEnded(f) == f.op = "getNonJoinedBlocks" /\ f.pc = "idle"

\* C14, as stated: for a right or full join that is neither semi nor asof,
\* getNonJoinedBlocks returns a stream of the non-joined rows.
C14_ReturnsNonJoinedRows ==
    \A t \in Threads :
        (/\ NonJoinedEnded(frames[t])
         /\ join_kind \in {"Right", "Full"}
         /\ strictness \notin {"Semi", "Asof"}) =>
            frames[t].ret = "NotJoinedBlocks"

\* C14, amended: for a right or full join that is neither semi nor asof,
\* getNonJoinedBlocks ends with LOGICAL_ERROR and returns nothing.
C14_RightOrFullIsError ==
    \A t \in Threads :
        (/\ NonJoinedEnded(frames[t])
         /\ join_kind \in {"Right", "Full"}
         /\ strictness \notin {"Semi", "Asof"}) =>
            frames[t].ret = "LOGICAL_ERROR"

\* getNonJoinedBlocks was called on a constructed full join of strictness All.
C14_Witness ==
    \E t \in Threads :
        /\ NonJoinedEnded(frames[t])
        /\ construction = "ok"
        /\ join_kind = "Full"
        /\ strictness = "All"
        /\ frames[t].ret = "LOGICAL_ERROR"

\* C15: for a semi or asof join, and for a join that is not right or full,
\* getNonJoinedBlocks returns the empty pointer and no error; it ends with
\* LOGICAL_ERROR for the other joins only.
C15_NotApplicableIsEmpty ==
    \A t \in Threads :
        LET f == frames[t]
            not_applicable ==
                \/ strictness \in {"Semi", "Asof"}
                \/ join_kind \notin {"Right", "Full"}
        IN  NonJoinedEnded(f) =>
              /\ f.ret \in {"nullptr", "LOGICAL_ERROR"}
              /\ not_applicable => f.ret = "nullptr"
              /\ f.ret = "LOGICAL_ERROR" => ~not_applicable

\* getNonJoinedBlocks returned the empty pointer for a right semi join.
C15_Witness ==
    \E t \in Threads :
        /\ NonJoinedEnded(frames[t])
        /\ join_kind = "Right"
        /\ strictness = "Semi"
        /\ frames[t].ret = "nullptr"

\* C16: the constructor fails with BAD_ARGUMENTS exactly for no slots, and
\* then no shard exists; for slots >= 1 there are exactly the shards
\* 0..slots-1, each with an engine holding no rows yet and a mutex of its
\* own, free until a thread takes it.
C16_Construction ==
    /\ construction \in {"none", "ok", "BAD_ARGUMENTS"}
    /\ construction = "none" => hash_joins = <<>>
    /\ construction = "BAD_ARGUMENTS" =>
          /\ slots = 0
          /\ hash_joins = <<>>
          /\ \A t \in Threads : frames[t] = IdleFrame
    /\ construction = "ok" =>
          /\ slots >= 1
          /\ DOMAIN hash_joins = 0..(slots - 1)
          /\ Cardinality(DOMAIN hash_joins) = slots
          /\ \A i \in DOMAIN hash_joins :
                /\ DOMAIN hash_joins[i] = {"data", "mutex"}
                /\ hash_joins[i].mutex \in {0} \cup Threads
          /\ (\A t \in Threads : ncalls[t] = 0) =>
                \A i \in DOMAIN hash_joins : hash_joins[i] = [data |-> <<>>, mutex |-> 0]

\* The constructor was called with no slots.
C16_Witness ==
    /\ construction = "BAD_ARGUMENTS"
    /\ slots = 0
    /\ hash_joins = <<>>

\* A routed block has one sub-block per shard, in the order of the shards,
\* each with the block's columns; the sub-block of a shard no row goes to has
\* no rows.
HasAllSubBlocks(route, key(_)) ==
    /\ Len(route.dispatched) = slots
    /\ DOMAIN route.dispatched = 1..slots
    /\ \A i \in Shards :
          LET sub == route.dispatched[i + 1]
              rows_of_i == {r \in 1..BlockRows(route.block) :
                              RoutingIndex(key(RowAt(route.block, r)), slots) = i}
          IN  /\ CloneEmpty(sub) = CloneEmpty(route.block)
              /\ BlockRows(sub) = Cardinality(rows_of_i)
              /\ rows_of_i = {} => \A p \in 1..Len(sub) : sub[p].column = <<>>

\* C17: dispatchBlock returns exactly slots sub-blocks, the one of shard i at
\* position i, whatever the block: a block without rows gives slots
\* sub-blocks without rows, and a shard no row goes to gets a sub-block
\* without rows.
C17_AlwaysAllSubBlocks ==
    /\ rt.left.side = "left" => HasAllSubBlocks(rt.left, LeftKey)
    /\ rt.right.side = "right" => HasAllSubBlocks(rt.right, RightKey)

\* Over two shards, a left block without rows gave two sub-blocks without
\* rows, and a right block of MaxRows rows went to shard 1 whole.
C17_Witness ==
    /\ slots = 2
    /\ rt.left.side = "left"
    /\ BlockRows(rt.left.block) = 0
    /\ Len(rt.left.dispatched) = 2
    /\ rt.right.side = "right"
    /\ BlockRows(rt.right.block) = MaxRows
    /\ BlockRows(rt.right.dispatched[1]) = 0
    /\ BlockRows(rt.right.dispatched[2]) = MaxRows

C19_TotalsNeverPartial ==
    \A t \in Threads :
        LET f == frames[t]
        IN  (f.op = "getTotals" /\ f.pc = "idle") =>
              /\ f.block \in {<<>>} \cup SeqToSet(totals_writes)
                                \cup {frames[u].block : u \in Assigning}
              /\ f.block \in f.whole_totals

\* The addJoinedBlock calls that have returned after computing both totals.
Counted(f) == f.op = "addJoinedBlock" /\ f.pc = "idle" /\ f.counted = 2

\* C20, as stated: the value getTotalRowCount or getTotalByteCount returns
\* is the true total of all shards at some moment between the call and its
\* return, whatever insertions run meanwhile.
C20_TotalOfOneMoment ==
    \A t \in Threads :
        Counted(frames[t]) => frames[t].rows_exact /\ frames[t].bytes_exact

\* C20, amended: the value is at least the true total at the call and at
\* most the true total at the return; with no insertion meanwhile it is the
\* true total.
C20_TotalBetweenCallAndReturn ==
    \A t \in Threads :
        LET f == frames[t]
        IN  Counted(f) =>
              /\ f.rows_lo <= f.res_rows /\ f.res_rows <= f.rows_hi
              /\ f.bytes_lo <= f.res_bytes /\ f.res_bytes <= f.bytes_hi
              /\ f.rows_lo = f.rows_hi => f.rows_exact
              /\ f.bytes_lo = f.bytes_hi => f.bytes_exact

\* A byte count has returned a value strictly between the true totals at its
\* call and at its return that was the true total at no moment.
C20_Witness ==
    \E t \in Threads :
        LET f == frames[t]
        IN  /\ Counted(f)
            /\ ~f.bytes_exact
            /\ f.bytes_lo < f.res_bytes /\ f.res_bytes < f.bytes_hi

\* C21: joinBlock takes no shard's mutex and waits for none: a thread in
\* joinBlock holds no mutex and always has its next step to take, whatever
\* mutexes the threads in addJoinedBlock hold; and a joinBlock call that
\* started with no addJoinedBlock in progress, none starting before it ended,
\* saw no insertion into any shard's engine.
C21_ProbeTakesNoMutex ==
    \A t \in Threads :
        LET f == frames[t]
        IN  /\ f.op = "joinBlock" => \A i \in Shards : hash_joins[i].mutex # t
            /\ f.pc = "probe" => ENABLED JoinBlockProbe(t)
            /\ f.pc = "concat" => ENABLED JoinBlockConcat(t)
            /\ (f.op = "joinBlock" /\ f.in_contract) => ~f.overlapped

\* Over two shards a joinBlock call has returned its result, having probed
\* each shard while another thread held that shard's mutex.
C21_Witness ==
    \E t \in Threads :
        /\ slots = 2
        /\ ProbeEnded(frames[t]) /\ frames[t].ret = "true"
        /\ frames[t].passed = {0, 1}

\* C22: a thread that is in no addJoinedBlock call, its last one having
\* returned or failed, holds no shard's mutex.
C22_NoMutexHeldAtEnd ==
    \A t \in Threads :
        frames[t].pc = "idle" => \A i \in Shards : hash_joins[i].mutex # t

\* The shards whose mutex thread t holds.
HeldBy(t) == {i \in Shards : hash_joins[i].mutex = t}

\* C23: a thread in addJoinedBlock holds at most one shard's mutex, that of
\* the shard it is inserting into, and none when it tries a shard; so it
\* always has a step to take, whatever the other threads hold and in whatever
\* order they came to the shards.
C23_AtMostOneMutex ==
    \A t \in Threads :
        LET f == frames[t]
        IN  /\ Cardinality(HeldBy(t)) <= 1
            /\ f.pc = "scan" => HeldBy(t) = {}
            /\ f.pc \in {"inserting", "unlock"} => HeldBy(t) = {CurrentShard(f)}
            /\ InBuild(f) => ENABLED BuildStep(t)

\* Two threads each hold the mutex of one shard while the shard held by the
\* other is still in their worklist.
C23_Witness ==
    \E t \in Threads, u \in Threads :
        /\ t # u
        /\ HeldBy(t) = {0} /\ HeldBy(u) = {1}
        /\ frames[t].pc = "inserting" /\ frames[u].pc = "inserting"
        /\ 1 \in SeqToSet(frames[t].pending_blocks)
        /\ 0 \in SeqToSet(frames[u].pending_blocks)

\* The step of thread t in which line 78's insertion takes effect.
InsertionBy(t) == frames[t].pc = "inserting" /\ frames'[t].pc = "unlock"

\* C24: the insertion of sub-block i into shard i leaves the engine and the
\* mutex of every other shard as they were, appends the rows of sub-block i to
\* the rows of shard i's engine, so that its row count grows by the rows of
\* sub-block i; and an engine's rows change in no other step.
C24_InsertChangesOneShard ==
    [][/\ \A t \in Threads :
             InsertionBy(t) =>
                LET i == CurrentShard(frames[t])
                    sub == frames[t].dispatched0[i + 1]
                IN  /\ \A j \in Shards \ {i} : hash_joins'[j] = hash_joins[j]
                    /\ hash_joins'[i].mutex = hash_joins[i].mutex
                    /\ hash_joins'[i].data = hash_joins[i].data \o RowsOf(sub)
                    /\ EngineTotalRowCount(hash_joins'[i].data) =
                          EngineTotalRowCount(hash_joins[i].data) + BlockRows(sub)
                    /\ EngineTotalByteCount(hash_joins'[i].data) >=
                          EngineTotalByteCount(hash_joins[i].data)
       /\ \A j \in Shards :
             hash_joins'[j].data # hash_joins[j].data =>
                \E t \in Threads : InsertionBy(t) /\ CurrentShard(frames[t]) = j
      ]_vars

\* Over two shards a thread has inserted a sub-block with rows into shard 1,
\* after one into shard 0, whose engine holds rows.
C24_Witness ==
    \E t \in Threads :
        LET f == frames[t]
        IN  /\ slots = 2
            /\ f.pc = "unlock"
            /\ f.inserted = <<0, 1>>
            /\ BlockRows(f.dispatched0[2]) > 0
            /\ hash_joins[0].data # <<>>
            /\ hash_joins[1].data # <<>>

\* A step that changes the frame of thread t, the thread then being in `op`.
StepIn(t, ops) == frames'[t] # frames[t] /\ frames'[t].op \in ops

\* C25: no step of addJoinedBlock or joinBlock changes totals or its mutex;
\* no step of setTotals changes a shard's engine or mutex, so the total row
\* and byte counts stay as they are, and a thread in setTotals holds no
\* shard's mutex.
C25_TotalsAndShardsIndependent ==
    [][\A t \in Threads :
          /\ StepIn(t, {"addJoinedBlock", "joinBlock"}) =>
                /\ totals' = totals
                /\ totals_mutex' = totals_mutex
                /\ totals_writes' = totals_writes
          /\ StepIn(t, {"setTotals"}) =>
                /\ hash_joins' = hash_joins
                /\ TotalRowCount(hash_joins') = TotalRowCount(hash_joins)
                /\ TotalByteCount(hash_joins') = TotalByteCount(hash_joins)
                /\ HeldBy(t) = {}
                /\ \A i \in Shards : hash_joins'[i].mutex # t
      ]_vars

\* One thread has stored a totals block and is about to release
\* totals_mutex while the other, in addJoinedBlock over two shards, has
\* inserted rows and holds the mutex of shard 1.
C25_Witness ==
    \E t \in Threads, u \in Threads :
        /\ slots = 2
        /\ frames[t].op = "setTotals" /\ frames[t].pc = "totals_unlock"
        /\ totals = frames[t].arg /\ totals # <<>>
        /\ frames[u].op = "addJoinedBlock" /\ frames[u].pc = "unlock"
        /\ HeldBy(u) = {1}
        /\ hash_joins[1].data # <<>>

\* Every sub-block of a routed block has the block's columns, by position,
\* name and type, and none of the selector columns computed for the routing.
KeepsColumns(route, hash_columns_names) ==
    /\ \A n \in SeqToSet(hash_columns_names) :
          \E p \in 1..Len(route.executed) : route.executed[p].name = n
    /\ \A k \in 1..Len(route.dispatched) :
          LET sub == route.dispatched[k]
          IN  /\ BlockColumns(sub) = BlockColumns(route.block)
              /\ \A p \in 1..BlockColumns(sub) :
                    /\ sub[p].name = route.block[p].name
                    /\ sub[p].type = route.block[p].type
                    /\ sub[p].name \notin SeqToSet(hash_columns_names)
                    /\ IsSubSeq(sub[p].column, route.block[p].column)

\* C26: every sub-block dispatchBlock makes has exactly the columns of the
\* block, in their positions, with their names and types; the selector
\* columns computed for the routing are in no sub-block.
C26_SubBlocksKeepColumns ==
    /\ rt.left.side = "left" =>
          KeepsColumns(rt.left, dispatch_datas[0].hash_columns_names)
    /\ rt.right.side = "right" =>
          KeepsColumns(rt.right, dispatch_datas[1].hash_columns_names)

\* Over two shards a left block with rows was routed: two selector columns
\* were computed next to its three columns, and both sub-blocks have rows.
C26_Witness ==
    /\ slots = 2
    /\ rt.left.side = "left"
    /\ BlockColumns(rt.left.block) = 3
    /\ BlockColumns(rt.left.executed) = 5
    /\ \A k \in 1..2 : BlockRows(rt.left.dispatched[k]) > 0

\* C27: the result of joinBlock has one column for each column position of
\* shard 0's output, with that column's name and type, and all its columns
\* have the same number of rows.
C27_ResultHasShard0Columns ==
    \A t \in Threads :
        LET f == frames[t]
            out0 == f.dispatched_blocks[1]
        IN  (ProbeEnded(f) /\ f.ret = "true") =>
              /\ DOMAIN f.block = 1..BlockColumns(out0)
              /\ \A p \in 1..BlockColumns(out0) :
                    /\ f.block[p].name = out0[p].name
                    /\ f.block[p].type = out0[p].type
              /\ \A p \in DOMAIN f.block, q \in DOMAIN f.block :
                    Len(f.block[p].column) = Len(f.block[q].column)
              /\ BlockColumns(out0) =
                    BlockColumns(left_sample_block) + BlockColumns(right_sample_block)

\* Over two shards the output of shard 0 has no rows and the output of
\* shard 1 has some: the result has the six columns of shard 0's output and
\* the rows of shard 1's.
C27_Witness ==
    \E t \in Threads :
        LET f == frames[t]
        IN  /\ slots = 2
            /\ ProbeEnded(f) /\ f.ret = "true"
            /\ BlockRows(f.dispatched_blocks[1]) = 0
            /\ BlockRows(f.dispatched_blocks[2]) > 0
            /\ BlockColumns(f.block) = 6
            /\ BlockRows(f.block) = BlockRows(f.dispatched_blocks[2])

\* The addJoinedBlock calls that ended with SET_SIZE_LIMIT_EXCEEDED.
LimitExceeded(f) ==
    f.op = "addJoinedBlock" /\ f.pc = "idle" /\ f.ret = "SET_SIZE_LIMIT_EXCEEDED"

\* s ends with w.
IsSuffix(w, s) ==
    Len(w) <= Len(s) /\ SubSeq(s, Len(s) - Len(w) + 1, Len(s)) = w

C29_ErrorLeavesBlock ==
    \A t \in Threads :
        LET f == frames[t]
            n == Len(f.reports)
        IN  /\ InProbe(f) => f.block = f.arg
            /\ (ProbeEnded(f) /\ f.ret = "LOGICAL_ERROR") =>
                  /\ f.block = f.arg
                  /\ f.i = n - 1
                  /\ \A k \in (n + 1)..slots :
                        f.dispatched_blocks[k] = f.dispatched0[k]
                  /\ \A k \in 1..n : f.dispatched_blocks[k] # f.dispatched0[k]
            /\ (ProbeEnded(f) /\ f.block # f.arg) =>
                  /\ f.ret = "true"
                  /\ n = slots
                  /\ \A k \in 1..n : ~f.reports[k]

\* Over two shards the engine of shard 0 left rows unprocessed: the call
\* ended with LOGICAL_ERROR, the caller's block of two rows is as it was, and
\* the sub-block of shard 1, which has rows, was not probed.
C29_Witness ==
    \E t \in Threads :
        LET f == frames[t]
        IN  /\ slots = 2
            /\ ProbeEnded(f) /\ f.ret = "LOGICAL_ERROR"
            /\ f.reports = <<TRUE>>
            /\ BlockRows(f.arg) = 2 /\ f.block = f.arg
            /\ BlockRows(f.dispatched_blocks[2]) > 0
            /\ BlockColumns(f.dispatched_blocks[2]) = BlockColumns(f.arg)

\* What getTotalRowCount has summed so far is no more than the true total,
\* and its result lies between the true totals at its call and at its return.
RowCountBounded ==
    \A t \in Threads :
        LET f == frames[t]
        IN  /\ f.pc = "count_rows" =>
                  /\ f.res_rows <= GetTotalRowCount
                  /\ f.rows_lo <= GetTotalRowCount
            /\ Counted(f) =>
                  f.rows_lo <= f.res_rows /\ f.res_rows <= f.rows_hi

\* C30: in no step does the row count or the byte count of a shard's engine
\* decrease, and so getTotalRowCount, running while other threads insert,
\* returns at least the true total at its call and at most the true total at
\* its return.
C30_CountsNeverDecrease ==
    [][/\ \A i \in Shards :
             /\ EngineTotalRowCount(hash_joins'[i].data) >=
                   EngineTotalRowCount(hash_joins[i].data)
             /\ EngineTotalByteCount(hash_joins'[i].data) >=
                   EngineTotalByteCount(hash_joins[i].data)
       /\ TotalRowCount(hash_joins') >= TotalRowCount(hash_joins)
       /\ RowCountBounded'
      ]_vars

\* A row count over two shards ran while another thread inserted a row into
\* each: it missed the row of one shard and counted the row of the other.
C30_Witness ==
    \E t \in Threads :
        LET f == frames[t]
        IN  /\ slots = 2
            /\ Counted(f)
            /\ f.rows_hi = f.rows_lo + 2
            /\ f.res_rows = f.rows_lo + 1

\* A thread that is in, or has returned from, setTotals of a block without
\* columns has returned at once and does not hold totals_mutex; one that has
\* assigned its block and not yet released totals_mutex finds its block in
\* totals, and a block with columns whose setTotals returned was stored.
SetTotalsEffect ==
    \A t \in Threads :
        LET f == frames[t]
        IN  f.op = "setTotals" =>
              /\ f.arg = <<>> => (f.pc = "idle" /\ totals_mutex # t)
              /\ f.pc = "totals_unlock" => (totals = f.arg /\ totals_mutex = t)
              /\ (f.arg # <<>> /\ f.pc = "idle") => f.arg \in SeqToSet(totals_writes)

\* C31: setTotals of a block without columns changes neither totals nor
\* totals_mutex; setTotals of a block with columns makes that block the
\* totals, and totals changes in no other step.
C31_EmptyTotalsIsNoOp ==
    [][/\ \A t \in Threads :
             (StepIn(t, {"setTotals"}) /\ frames'[t].arg = <<>>) =>
                /\ totals' = totals
                /\ totals_mutex' = totals_mutex
                /\ totals_writes' = totals_writes
       /\ totals' # totals =>
             \E t \in Threads :
                /\ frames[t].op = "setTotals" /\ frames[t].pc = "totals_assign"
                /\ frames[t].arg # <<>>
                /\ totals' = frames[t].arg
       /\ SetTotalsEffect'
      ]_vars

\* setTotals of a block without columns has returned while the other thread
\* held totals_mutex, and the totals are the block with columns stored before.
C31_Witness ==
    \E t \in Threads, u \in Threads :
        /\ t # u
        /\ frames[t].op = "setTotals" /\ frames[t].pc = "idle"
        /\ frames[t].arg = <<>>
        /\ totals # <<>>
        /\ totals_mutex = u

\* The checkTypesOfKeys calls that have ended.
KeysChecked(f) == f.op = "checkTypesOfKeys" /\ f.pc = "idle"

\* C32: checkTypesOfKeys reports what the engine of shard 0 reports for the
\* block, TYPE_MISMATCH or nothing, and changes nothing of the join or of a
\* shard; the constructor fails for no slots only, whatever the key types
\* of the two sample blocks.
C32_KeyTypesFromShard0 ==
    [][/\ \A t \in Threads :
             StepIn(t, {"checkTypesOfKeys"}) =>
                /\ UNCHANGED <<web, shape, hash_joins, totals_vars, submitted>>
                /\ frames'[t].ret =
                      EngineCheckTypesOfKeys(key_types.right, frames'[t].arg)
                /\ frames'[t].ret = "TYPE_MISMATCH" <=>
                      \E j \in 1..Len(key_names_left) :
                          FindByName(frames'[t].arg, key_names_left[j]).type
                              # key_types.right[j]
       /\ (construction = "none" /\ construction' # "none") =>
             /\ construction' \in {"ok", "BAD_ARGUMENTS"}
             /\ construction' = "BAD_ARGUMENTS" <=> slots' = 0
      ]_vars

\* A join was constructed over sample blocks whose key types differ between
\* the sides; its engines hold rows, and checkTypesOfKeys of a block with
\* the left sample's key types has reported TYPE_MISMATCH.
C32_Witness ==
    \E t \in Threads :
        LET f == frames[t]
        IN  /\ construction = "ok"
            /\ slots = 2
            /\ key_types.left # key_types.right
            /\ KeysChecked(f)
            /\ TypesOf(f.arg, key_names_left) = key_types.left
            /\ f.ret = "TYPE_MISMATCH"
            /\ \E i \in Shards : hash_joins[i].data # <<>>

\* The seeks that have ended.
Seeked == web.op = "seek"

NextByteToConsume ==
    IF web.impl THEN web.server - Available(web) ELSE web.seeked

\* C34: once the request is open its byte range starts at the offset of the
\* last successful seek, the request is opened at most once, after every
\* successful read the stored offset is that offset plus the bytes delivered
\* so far, and getPosition is the position in the file of the next byte to
\* consume.
C34_PositionIsAbsolute ==
    /\ web.opened <= 1
    /\ web.impl => web.opened = 1 /\ web.range = web.seeked
    /\ (web.op = "next" /\ web.result = "true") =>
          web.offset = web.seeked + web.delivered
    /\ GetPosition(web) = NextByteToConsume

\* After seek(1), two reads of one byte each, the first consumed and the
\* second not yet: the position is 2.
C34_Witness ==
    /\ web.seeked = 1
    /\ web.opened = 1 /\ web.range = 1
    /\ web.attempts = 2 /\ web.delivered = 2
    /\ web.op = "next" /\ web.result = "true"
    /\ Available(web) = 1
    /\ GetPosition(web) = 2

====
